---- MODULE Spec2Model ----
(***************************************************************************)
(* A model of the media catalog engine of newcl/memory (src/memory):       *)
(* the import/dedup pipeline (_scan_and_process_folder), the catalog store *)
(* (MemoryDB) and the perceptual-similarity clustering (detect_visual).    *)
(***************************************************************************)
EXTENDS Integers, Sequences, FiniteSets, TLC

(* ------------------------------ bounds -------------------------------- *)
\* distinct file contents that exist in the world
NContents == 2
\* files in one source folder
MaxFiles == 2
\* seconds the wall clock can show (the timestamp suffix has 1 s resolution)
MaxClock == 2
\* rows read by one detect_visual run
MaxRecs == 3

(* --------------------------- program constants ------------------------ *)
MEMORY_FOLDER_NAME == ".memory"
DefaultThreshold == 5

(* ------------------------------ paths --------------------------------- *)
\* One path component.  A file name is stem + optional "_<timestamp>" + ext
\* (ts = 0: no timestamp part); a directory name has an empty ext.
Comp(stem, ts, ext) == [stem |-> stem, ts |-> ts, ext |-> ext]
DirName(d) == Comp(d, 0, "")
FileName(stem, ext) == Comp(stem, 0, ext)

_get_home_folder_path == <<DirName("home")>>
_get_memory_path == _get_home_folder_path \o <<DirName(MEMORY_FOLDER_NAME)>>

IsPrefix(p, q) == Len(p) <= Len(q) /\ SubSeq(q, 1, Len(p)) = p

\* Path.relative_to(base) raises unless base is a prefix; then str(path)
_to_relative_path(path, base) ==
    IF IsPrefix(base, path) THEN SubSeq(path, Len(base) + 1, Len(path)) ELSE path

\* base / rel_path: pathlib keeps the right operand when it is absolute
IsAbsolute(p) == Len(p) > 0 /\ p[1] = DirName("home")
_from_relative_path(rel_path, base) ==
    IF IsAbsolute(rel_path) THEN rel_path ELSE base \o rel_path

PathName(p) == p[Len(p)]

(* ----------------------------- contents ------------------------------- *)
Contents == 1 .. NContents
NoFile == 0
\* what a destination holds while shutil.copy2 has written only a part:
\* bytes that are no complete content
Truncated == 0 - 1

\* sha256 of the bytes: depends on the bytes only, distinct bytes give
\* distinct digests
get_file_hash(content) == <<"sha256", content>>
calculate_file_hash(content) == get_file_hash(content)

\* st_size of a complete file (contents 1 and 2 have the same length)
SizeOf(c) == 100 * ((c + 1) \div 2)

get_media_type(name) ==
    IF name.ext \in {"jpg", "jpeg", "png", "gif", "bmp", "tiff", "webp"} THEN "photo"
    ELSE IF name.ext \in {"mp4", "mov", "avi", "mkv", "webm", "flv"} THEN "video"
    ELSE "None"

(* --------------------------- source folders --------------------------- *)
\* An entry that Path.rglob('*') / Path.iterdir() can yield: its path
\* relative to the scanned folder, whether it is a regular file, its bytes.
Entry(path, kind, content) == [path |-> path, kind |-> kind, content |-> content]

MediaPaths ==
    { <<FileName("a", "jpg")>>,
      <<DirName("sub"), FileName("a", "jpg")>> }

\* a.jpg and sub/a.jpg with any content, a text file, a file below a
\* .memory folder, a directory
FilePool ==
    { Entry(p, "file", c) : p \in MediaPaths, c \in Contents }
    \cup { Entry(<<FileName("n", "txt")>>, "file", 1),
           Entry(<<DirName(MEMORY_FOLDER_NAME), FileName("a", "jpg")>>, "file", 1),
           Entry(<<DirName("sub")>>, "dir", NoFile) }

\* a folder is a set of entries with pairwise different paths
Folders ==
    { F \in SUBSET FilePool :
        /\ Cardinality(F) <= MaxFiles
        /\ \A e1, e2 \in F : e1.path = e2.path => e1 = e2 }

\* source_folder.rglob('*') when recursive, source_folder.iterdir() otherwise
file_iter(F, recursive) ==
    IF recursive THEN F ELSE { e \in F : Len(e.path) = 1 }

(* ---------------------------- catalog store --------------------------- *)
\* SQL NULL / Python None: the value of no length, unequal to every stored
\* path, fingerprint and blob
NULL == <<>>

gzip_compress(text) == <<"gzip", text>>
\* variant: the reader hands out the stored bytes
gzip_decompress_Raw(blob) == blob

gzip_decompress(blob) == blob[2]

\* extracted metadata as JSON text: json.dumps of an empty / non-empty dict
MetaEmpty == "{}"
MetaFull == "{\"Make\": \"X\"}"
MetaTexts == {MetaEmpty, MetaFull}

\* variant: extraction always reported as successful
json_nonempty_Always(text) == TRUE

\* json.loads(text) is a non-empty mapping
json_nonempty(text) == text # MetaEmpty

\* perceptual hashes as stored: str(imagehash.phash(img)), a hex string,
\* here a sequence of hex digits.  With A, B, C: Hamming(A,B) = 3,
\* Hamming(A,C) = 9, Hamming(B,C) = 8; D is 5 bits from A and 8 from B.
HexA == <<"0", "0", "0", "0">>
HexB == <<"0", "0", "0", "7">>
HexC == <<"0", "3", "f", "e">>
HexD == <<"0", "0", "f", "8">>
PhashPool == {HexA, HexB, HexC, HexD}

\* the columns _create_tables gives a new table files, each with its
\* declaration (db.py lines 30-43)
CreatedColumns ==
    [ file_hash |-> "TEXT PRIMARY KEY",
      current_filename |-> "TEXT NOT NULL",
      current_path |-> "TEXT NOT NULL",
      size |-> "INTEGER NOT NULL",
      media_type |-> "TEXT",
      date_added |-> "TEXT NOT NULL",
      extracted_metadata |-> "BLOB",
      uploaded_s3 |-> "BOOLEAN DEFAULT FALSE",
      uploaded_gcloud |-> "BOOLEAN DEFAULT FALSE",
      uploaded_azure |-> "BOOLEAN DEFAULT FALSE",
      metadata_extracted |-> "BOOLEAN DEFAULT FALSE",
      perceptual_hash |-> "TEXT" ]

\* no table yet
NoColumns == <<>>

\* the row an INSERT of add_file_metadata creates: the statement names
\* eight columns, the others take their column defaults (a field of a column
\* the live table does not have holds the default as well)
InsertedRow(metadata) ==
    [ file_hash |-> metadata.file_hash,
      current_filename |-> metadata.current_filename,
      current_path |-> metadata.current_path,
      size |-> metadata.size,
      media_type |-> metadata.media_type,
      date_added |-> metadata.date_added,
      extracted_metadata |->
          IF metadata.extracted_metadata # ""
          THEN gzip_compress(metadata.extracted_metadata) ELSE NULL,
      metadata_extracted |-> metadata.metadata_extracted,
      uploaded_s3 |-> FALSE,
      uploaded_gcloud |-> FALSE,
      uploaded_azure |-> FALSE,
      perceptual_hash |-> NULL,
      original_filename |-> NULL,
      original_path |-> NULL ]

\* sqlite3.IntegrityError: file_hash is the PRIMARY KEY
IntegrityError(table, metadata) ==
    \E r \in table : r.file_hash = metadata.file_hash

\* variant: INSERT OR REPLACE instead of INSERT
add_file_metadata_Replace(table, metadata) ==
    [ table |-> { r \in table : r.file_hash # metadata.file_hash }
                    \cup {InsertedRow(metadata)},
      returned |-> TRUE ]

\* add_file_metadata: the table afterwards, and the value returned
add_file_metadata(table, metadata) ==
    IF IntegrityError(table, metadata)
    THEN [table |-> table, returned |-> FALSE]
    ELSE [table |-> table \cup {InsertedRow(metadata)}, returned |-> TRUE]

\* variant: the bulk read returns nothing
get_all_file_hashes_None(table) == {}

get_all_file_hashes(table) == { r.file_hash : r \in table }

get_file_by_hash(table, h) ==
    IF \E r \in table : r.file_hash = h
    THEN LET r == CHOOSE x \in table : x.file_hash = h
         IN  <<[r EXCEPT !.extracted_metadata =
                   IF r.extracted_metadata # NULL
                   THEN gzip_decompress(r.extracted_metadata) ELSE NULL]>>
    ELSE <<>>

(* ------------------------------- state -------------------------------- *)
VARIABLES
    memory_exists,        \* the .memory folder (with its store file) exists
    files_table,          \* the rows of table files
    disk,                 \* files of the catalog root: path -> bytes
    conn,                 \* the connection of the running operation
    pc,                   \* position of the running operation
    pending,              \* import_folder waiting for its implicit init
    remaining,            \* entries file_iter has not yielded yet
    managed_hashes,       \* _scan_and_process_folder's in-memory set
    new_files_processed,
    filepath,             \* the entry of the current iteration
    file_hash,
    dest_path,
    last,                 \* how the last operation ended
    clock,                \* datetime.now(), in seconds
    returned,             \* the value the last store call returned
    files,                \* detect_visual: the rows read, in scan order
    outer_i,              \* detect_visual: index i of the outer loop
    visited,              \* detect_visual: file hashes already grouped
    groups,               \* the groups a detector reports
    arg_videos,           \* the videos argument of the last detector call
    arg_photos,           \* the photos argument of the last detector call
    columns,              \* the live column set of table files
    rows,                 \* rows fetched by the running loop, not yet processed
    uncommitted,          \* UPDATEs executed on conn and not yet committed
    cloud_target,         \* upload_to_cloud: the target of the running upload
    migrated              \* a migrate_files_table run has gone through all
                          \* three of its passes and nothing failed since

vars == << memory_exists, files_table, disk, conn, pc, pending, remaining,
           managed_hashes, new_files_processed, filepath, file_hash,
           dest_path, last, clock, returned, files, outer_i, visited, groups,
           arg_videos, arg_photos, columns, rows, uncommitted, cloud_target,
           migrated >>

loopLocals == << filepath, file_hash, dest_path >>
visualVars == << files, outer_i, visited, groups, arg_videos, arg_photos >>
maintLocals == << rows, uncommitted, cloud_target, migrated >>
maintVars == << columns, rows, uncommitted, cloud_target, migrated >>
importVars == << memory_exists, disk, conn, pending, remaining, managed_hashes,
                 new_files_processed, loopLocals, clock >>

\* names a file of the catalog root can have
RootNames ==
    { Comp(PathName(p).stem, t, PathName(p).ext) : p \in MediaPaths, t \in 0 .. MaxClock }
RootPaths == { _get_memory_path \o <<n>> : n \in RootNames }

NoEntry == Entry(<<>>, "none", NoFile)
NoHash == get_file_hash(NoFile)

exists(d, path) == path \in DOMAIN d /\ d[path] # NoFile

\* generate_timestamp_suffix(): strftime("%Y%m%d_%H%M%S") of now
generate_timestamp_suffix(now) == now

Init ==
    /\ memory_exists = FALSE
    /\ files_table = {}
    /\ disk = [p \in RootPaths |-> NoFile]
    /\ conn = "closed"
    /\ pc = "idle"
    /\ pending = "none"
    /\ remaining = {}
    /\ managed_hashes = {}
    /\ new_files_processed = 0
    /\ filepath = NoEntry
    /\ file_hash = NoHash
    /\ dest_path = <<>>
    /\ last = "none"
    /\ clock = 1
    /\ returned = "None"
    /\ files = <<>>
    /\ outer_i = 0
    /\ visited = {}
    /\ groups = <<>>
    /\ arg_videos = FALSE
    /\ arg_photos = FALSE
    /\ columns = NoColumns
    /\ rows = {}
    /\ uncommitted = {}
    /\ cloud_target = "none"
    /\ migrated = FALSE

(* ---------------------- _scan_and_process_folder ---------------------- *)
\* the loop's locals are dead between iterations and after the loop
ClearLocals ==
    /\ filepath' = NoEntry
    /\ file_hash' = NoHash
    /\ dest_path' = <<>>

\* db.connect(); managed_hashes = set(db.get_all_file_hashes()); the
\* iterator over the folder F is created
BeginScan(F, recursive) ==
    /\ conn' = "open"
    /\ managed_hashes' = get_all_file_hashes(files_table)
    /\ new_files_processed' = 0
    /\ remaining' = file_iter(F, recursive)
    /\ pc' = "scan"
    /\ last' = "running"
    /\ ClearLocals

\* where control goes when _scan_and_process_folder returns
AfterScan == IF pending = "import" THEN "import" ELSE "idle"

\* the except / finally of _scan_and_process_folder: the error is printed,
\* the connection closed, and the function returns without a count
ScanAborts ==
    /\ conn' = "closed"
    /\ last' = "error"
    /\ pc' = AfterScan
    /\ remaining' = {}
    /\ managed_hashes' = {}
    /\ new_files_processed' = 0
    /\ ClearLocals

\* variant: the loop without its test for the .memory folder (line 91)
NotACandidate_RootIncluded(f) ==
    \/ f.kind # "file"
    \/ get_media_type(PathName(f.path)) = "None"

\* does the iteration of entry f end at one of the loop's `continue`s
\* before the hash is computed (lines 85-95)
NotACandidate(f) ==
    \/ f.kind # "file"
    \/ \E i \in 1 .. Len(f.path) : f.path[i] = DirName(MEMORY_FOLDER_NAME)
    \/ get_media_type(PathName(f.path)) = "None"

\* variant: a name conflict is never resolved with a suffix
ChooseDest_NoSuffix(f, h, d, now) == _get_memory_path \o <<PathName(f.path)>>

\* the destination chosen for a novel file (lines 104-119); <<>> stands for
\* the `continue` taken when the occupant has the same content
ChooseDest(f, h, d, now) ==
    LET name == PathName(f.path)
        first == _get_memory_path \o <<name>>
    IN  IF exists(d, first)
        THEN IF calculate_file_hash(d[first]) = h
             THEN <<>>
             ELSE _get_memory_path
                    \o <<Comp(name.stem, generate_timestamp_suffix(now), name.ext)>>
        ELSE first

\* variant: a pipeline that never treats a hash as managed
IsManaged_Never(h, managed) == FALSE

\* variant: every candidate is treated as managed
IsManaged_Always(h, managed) == TRUE

\* is the hash treated as already managed (line 98)
IsManaged(h, managed) == h \in managed

\* one iteration of the loop up to the copy (lines 84-124)
ScanFile(f) ==
    /\ pc = "scan"
    /\ f \in remaining
    /\ remaining' = remaining \ {f}
    /\ LET h == calculate_file_hash(f.content)
           dest == ChooseDest(f, h, disk, clock)
       IN  IF NotACandidate(f) \/ IsManaged(h, managed_hashes) \/ dest = <<>>
           THEN pc' = "scan" /\ ClearLocals
           ELSE /\ pc' = "copy"
                /\ filepath' = f
                /\ file_hash' = h
                /\ dest_path' = dest
    /\ UNCHANGED << memory_exists, files_table, disk, conn, pending,
                    managed_hashes, new_files_processed, last, clock >>
    /\ UNCHANGED << returned, visualVars, maintVars >>

\* calculate_file_hash(filepath) raises (the file cannot be read)
ScanFileHashRaises(f) ==
    /\ pc = "scan"
    /\ f \in remaining
    /\ ~NotACandidate(f)
    /\ ScanAborts
    /\ UNCHANGED << memory_exists, files_table, disk, pending, clock >>
    /\ UNCHANGED << returned, visualVars, maintVars >>

\* shutil.copy2 has created / truncated the destination and written a part
CopyBegin ==
    /\ pc = "copy"
    /\ disk' = [disk EXCEPT ![dest_path] = Truncated]
    /\ pc' = "copying"
    /\ UNCHANGED << memory_exists, files_table, conn, pending, remaining,
                    managed_hashes, new_files_processed, loopLocals, last, clock >>
    /\ UNCHANGED << returned, visualVars, maintVars >>

\* shutil.copy2 has written everything (line 125 returns)
CopyEnd ==
    /\ pc = "copying"
    /\ disk' = [disk EXCEPT ![dest_path] = filepath.content]
    /\ pc' = "extract"
    /\ UNCHANGED << memory_exists, files_table, conn, pending, remaining,
                    managed_hashes, new_files_processed, loopLocals, last, clock >>
    /\ UNCHANGED << returned, visualVars, maintVars >>

\* shutil.copy2 raises, before it wrote anything or part-way
CopyRaises ==
    /\ pc \in {"copy", "copying"}
    /\ ScanAborts
    /\ UNCHANGED << memory_exists, files_table, disk, pending, clock >>
    /\ UNCHANGED << returned, visualVars, maintVars >>

\* lines 127-150: get_media_metadata returned the JSON text `text`
\* ("{}" when extraction failed), _get_perceptual_hash returned phash
\* (NULL, Python's None, when it failed)
BuildMetadata(f, h, dest, text, phash, now) ==
    [ file_hash |-> h,
      original_filename |-> PathName(f.path),
      current_filename |-> PathName(dest),
      original_path |-> f.path,
      current_path |-> _to_relative_path(dest, _get_memory_path),
      size |-> SizeOf(f.content),
      media_type |-> get_media_type(PathName(f.path)),
      date_added |-> now,
      extracted_metadata |-> text,
      metadata_extracted |-> json_nonempty(text),
      perceptual_hash |-> phash ]

\* lines 127-159: extraction, the dict, add_file_metadata and the count
ExtractAndInsert(text, phash) ==
    /\ pc = "extract"
    /\ LET md == BuildMetadata(filepath, file_hash, dest_path, text, phash, clock)
           res == add_file_metadata(files_table, md)
       IN  /\ files_table' = res.table
           /\ IF res.returned
              THEN /\ new_files_processed' = new_files_processed + 1
                   /\ managed_hashes' = managed_hashes \cup {file_hash}
              ELSE UNCHANGED << new_files_processed, managed_hashes >>
    /\ pc' = "scan"
    /\ ClearLocals
    /\ UNCHANGED << memory_exists, disk, conn, pending, remaining, last, clock >>
    /\ UNCHANGED << returned, visualVars, maintVars >>

\* the loop is exhausted: the count is reported, the connection closed
FinishScan ==
    /\ pc = "scan"
    /\ remaining = {}
    /\ conn' = "closed"
    /\ last' = "reported"
    /\ pc' = AfterScan
    /\ remaining' = {}
    /\ managed_hashes' = {}
    /\ new_files_processed' = 0
    /\ ClearLocals
    /\ UNCHANGED << memory_exists, files_table, disk, pending, clock >>
    /\ UNCHANGED << returned, visualVars, maintVars >>

(* ----------------------- init_memory, import_folder ------------------- *)
\* init_memory() with the home folder holding the entries H: refuses when
\* .memory exists; otherwise creates it and the store and starts the scan
\* variant: init without the check for an existing .memory
init_memory_Reinit(H) ==
    /\ pc = "idle"
    /\ memory_exists' = TRUE
    /\ files_table' = {}
    /\ columns' = CreatedColumns
    /\ BeginScan(H, TRUE)
    /\ UNCHANGED << disk, pending, clock >>
    /\ UNCHANGED << returned, visualVars, maintLocals >>

init_memory(H) ==
    /\ pc = "idle"
    /\ IF memory_exists
       THEN /\ last' = "refused"
            /\ returned' = "False"
            /\ UNCHANGED << memory_exists, files_table, conn, pc, remaining,
                            managed_hashes, new_files_processed, loopLocals,
                            columns >>
       ELSE /\ memory_exists' = TRUE
            /\ files_table' = {}
            /\ columns' = CreatedColumns
            /\ BeginScan(H, TRUE)
            /\ UNCHANGED returned
    /\ UNCHANGED << disk, pending, clock >>
    /\ UNCHANGED << visualVars, maintLocals >>

\* import_folder(source, recursive) while .memory does not exist ("Running
\* 'init'..."): init_memory() runs first on the home folder H, the import of
\* the source folder follows it (ImportAfterInit)
import_folder_uninitialized(H) ==
    /\ pc = "idle"
    /\ ~memory_exists
    /\ memory_exists' = TRUE
    /\ files_table' = {}
    /\ columns' = CreatedColumns
    /\ BeginScan(H, TRUE)
    /\ pending' = "import"
    /\ UNCHANGED << disk, clock >>
    /\ UNCHANGED << returned, visualVars, maintLocals >>

\* import_folder(source, recursive) with an initialized catalog; is_home: the
\* source resolves to the home folder itself
import_folder(F, is_home, recursive) ==
    /\ pc = "idle"
    /\ memory_exists
    /\ IF is_home
       THEN /\ last' = "refused"
            /\ UNCHANGED << conn, pc, remaining, managed_hashes,
                            new_files_processed, loopLocals >>
       ELSE BeginScan(F, recursive)
    /\ UNCHANGED << memory_exists, files_table, disk, pending, clock >>
    /\ UNCHANGED << returned, visualVars, maintVars >>

\* import_folder goes on after its implicit init_memory() returned True
ImportAfterInit(F, is_home, recursive) ==
    /\ pc = "import"
    /\ pending' = "none"
    /\ IF is_home
       THEN /\ last' = "refused"
            /\ pc' = "idle"
            /\ UNCHANGED << conn, remaining, managed_hashes, new_files_processed,
                            loopLocals >>
       ELSE BeginScan(F, recursive)
    /\ UNCHANGED << memory_exists, files_table, disk, clock >>
    /\ UNCHANGED << returned, visualVars, maintVars >>

\* the process is terminated from outside: nothing is rolled back, the
\* operating system closes the connection
Terminate ==
    /\ pc # "idle"
    /\ pc' = "idle"
    /\ pending' = "none"
    /\ conn' = "closed"
    /\ last' = "killed"
    /\ remaining' = {}
    /\ managed_hashes' = {}
    /\ new_files_processed' = 0
    /\ ClearLocals
    /\ UNCHANGED << memory_exists, files_table, disk, clock >>
    /\ UNCHANGED << returned, visualVars, maintVars >>

\* a second passes
Tick ==
    /\ clock < MaxClock
    /\ clock' = clock + 1
    /\ UNCHANGED << memory_exists, files_table, disk, conn, pc, pending, remaining,
                    managed_hashes, new_files_processed, loopLocals, last >>
    /\ UNCHANGED << returned, visualVars, maintVars >>

Next ==
    \/ \E H \in Folders : init_memory(H)
    \/ \E H \in Folders : import_folder_uninitialized(H)
    \/ \E F \in Folders, recursive \in BOOLEAN : import_folder(F, FALSE, recursive)
    \/ import_folder({}, TRUE, TRUE)
    \/ \E F \in Folders, recursive \in BOOLEAN : ImportAfterInit(F, FALSE, recursive)
    \/ ImportAfterInit({}, TRUE, TRUE)
    \/ \E f \in remaining : ScanFile(f)
    \/ \E f \in remaining : ScanFileHashRaises(f)
    \/ CopyBegin
    \/ CopyEnd
    \/ CopyRaises
    \/ \E text \in MetaTexts, phash \in {NULL, HexA, HexB} : ExtractAndInsert(text, phash)
    \/ FinishScan
    \/ Terminate
    \/ Tick

Spec == Init /\ [][Next]_vars

(* ------------------- properties of the import pipeline ---------------- *)
RootPath(rel) == _from_relative_path(rel, _get_memory_path)

\* the backing file of row r exists and holds the content r was hashed from
BackingFileIntact(r, d) ==
    /\ exists(d, RootPath(r.current_path))
    /\ calculate_file_hash(d[RootPath(r.current_path)]) = r.file_hash

OneRowPerHash(table) ==
    \A r1, r2 \in table : r1.file_hash = r2.file_hash => r1 = r2

\* C1: the catalog never holds two rows with one content hash; a candidate
\* whose hash is already in the store ends its iteration without a copy and
\* without a row, and whatever step writes a file or adds a row does so for
\* a candidate whose hash is not in the store.
C1_OneRowPerHash ==
    [][ /\ OneRowPerHash(files_table')
        /\ \A f \in remaining :
              ( /\ ScanFile(f)
                /\ ~NotACandidate(f)
                /\ calculate_file_hash(f.content) \in get_all_file_hashes(files_table) )
              => (pc' = "scan" /\ UNCHANGED << files_table, disk >>)
        /\ (disk' # disk \/ ~(files_table' \subseteq files_table))
              => file_hash \notin get_all_file_hashes(files_table)
      ]_vars

\* C1 witness: a run that has added its first row is about to visit another
\* candidate with the same content
C1_Witness ==
    /\ pc = "scan"
    /\ new_files_processed = 1
    /\ Cardinality(files_table) = 1
    /\ \E f \in remaining :
          /\ ~NotACandidate(f)
          /\ calculate_file_hash(f.content) \in get_all_file_hashes(files_table)

\* C2 (as claimed): at every step of an import run, whenever it may be
\* terminated, every row of the store refers to a file of the catalog root
\* that exists and holds the full content the row was hashed from.
C2_RowsHaveFiles ==
    \A r \in files_table : BackingFileIntact(r, disk)

\* C3 (as claimed): a run that ends, other than by being terminated, ends
\* with its report of the count and with no candidate left unvisited: a
\* failure of one candidate does not end it.
C3_FailureConfined ==
    [][ (last = "running" /\ last' \notin {"running", "killed"})
            => (last' = "reported" /\ remaining = {}) ]_vars

\* C4: when the extraction step of a copied novel candidate returns empty
\* metadata ("{}") or no fingerprint, a row is created for the candidate all
\* the same, with metadata_extracted false and empty metadata, respectively
\* with an absent fingerprint, and the loop goes on.
C4_ExtractionFailureTolerated ==
    [][ \A text \in MetaTexts, phash \in PhashPool \cup {NULL} :
          (ExtractAndInsert(text, phash) /\ (text = MetaEmpty \/ phash = NULL))
          => /\ pc' = "scan" /\ conn' = "open" /\ last' = "running"
             /\ \E r \in files_table' \ files_table :
                   /\ r.file_hash = file_hash
                   /\ text = MetaEmpty =>
                        /\ r.metadata_extracted = FALSE
                        /\ gzip_decompress(r.extracted_metadata) = MetaEmpty
                   /\ phash = NULL => r.perceptual_hash = NULL
      ]_vars

\* C4 witness: the loop is running on after it added a row without
\* metadata and without fingerprint
C4_Witness ==
    /\ pc = "scan"
    /\ new_files_processed >= 1
    /\ \E r \in files_table :
          /\ r.metadata_extracted = FALSE
          /\ r.extracted_metadata = gzip_compress(MetaEmpty)
          /\ r.perceptual_hash = NULL
          /\ BackingFileIntact(r, disk)

\* C7 (as claimed): the row created for a candidate whose fingerprint
\* extraction returned a value stores that value as its perceptual_hash.
C7_FingerprintStored ==
    [][ \A text \in MetaTexts, phash \in PhashPool :
          ExtractAndInsert(text, phash)
          => \E r \in files_table' :
                r.file_hash = file_hash /\ r.perceptual_hash = phash
      ]_vars

(* ------------- importing two files that share their name -------------- *)
\* an initialized, empty catalog; import_folder has just begun to scan a
\* source folder that holds a.jpg and sub/a.jpg with different contents
InitPair ==
    /\ memory_exists = TRUE
    /\ files_table = {}
    /\ disk = [p \in RootPaths |-> NoFile]
    /\ conn = "open"
    /\ pc = "scan"
    /\ pending = "none"
    /\ \E c1, c2 \in Contents :
          /\ c1 # c2
          /\ remaining = { Entry(<<FileName("a", "jpg")>>, "file", c1),
                           Entry(<<DirName("sub"), FileName("a", "jpg")>>, "file", c2) }
    /\ managed_hashes = {}
    /\ new_files_processed = 0
    /\ filepath = NoEntry
    /\ file_hash = NoHash
    /\ dest_path = <<>>
    /\ last = "running"
    /\ clock \in 1 .. MaxClock
    /\ returned = "None"
    /\ files = <<>>
    /\ outer_i = 0
    /\ visited = {}
    /\ groups = <<>>
    /\ arg_videos = FALSE
    /\ arg_photos = FALSE
    /\ columns = CreatedColumns
    /\ rows = {}
    /\ uncommitted = {}
    /\ cloud_target = "none"
    /\ migrated = FALSE

NextPair ==
    \/ \E f \in remaining : ScanFile(f)
    \/ \E f \in remaining : ScanFileHashRaises(f)
    \/ CopyBegin
    \/ CopyEnd
    \/ CopyRaises
    \/ \E text \in MetaTexts, phash \in {NULL, HexA, HexB} : ExtractAndInsert(text, phash)
    \/ FinishScan
    \/ Terminate
    \/ Tick

SpecPair == InitPair /\ [][NextPair]_vars

\* C5: when the import of the two same-named files with different contents
\* has run to its report, the store holds exactly two rows, one whose
\* current_path is the original name and one whose current_path is the
\* stem with a timestamp suffix, and the file at each row's current_path
\* holds the content with the row's hash.
C5_TwoRowsForCollidingNames ==
    (pc = "idle" /\ last = "reported") =>
        \E r1, r2 \in files_table :
            /\ r1 # r2
            /\ files_table = {r1, r2}
            /\ r1.file_hash # r2.file_hash
            /\ r1.current_path = <<FileName("a", "jpg")>>
            /\ \E t \in 1 .. MaxClock : r2.current_path = <<Comp("a", t, "jpg")>>
            /\ BackingFileIntact(r1, disk)
            /\ BackingFileIntact(r2, disk)

\* C5 witness: the run has reported and both files are in the store
C5_Witness ==
    /\ pc = "idle"
    /\ last = "reported"
    /\ Cardinality(files_table) = 2
    /\ \E r \in files_table : PathName(r.current_path).ts # 0

(* ----------------------- the store, called directly ------------------- *)
\* the metadata dicts a caller passes to add_file_metadata
StoreMetadatas ==
    { BuildMetadata(Entry(<<FileName("a", "jpg")>>, "file", c),
                    calculate_file_hash(c), _get_memory_path \o <<n>>, text, HexA, now) :
        c \in Contents, n \in RootNames, text \in MetaTexts, now \in 1 .. MaxClock }

\* a connected MemoryDB with an empty table
InitStore ==
    /\ memory_exists = TRUE
    /\ files_table = {}
    /\ disk = [p \in RootPaths |-> NoFile]
    /\ conn = "open"
    /\ pc = "store"
    /\ pending = "none"
    /\ remaining = {}
    /\ managed_hashes = {}
    /\ new_files_processed = 0
    /\ filepath = NoEntry
    /\ file_hash = NoHash
    /\ dest_path = <<>>
    /\ last = "running"
    /\ clock = 1
    /\ returned = "None"
    /\ files = <<>>
    /\ outer_i = 0
    /\ visited = {}
    /\ groups = <<>>
    /\ arg_videos = FALSE
    /\ arg_photos = FALSE
    /\ columns = CreatedColumns
    /\ rows = {}
    /\ uncommitted = {}
    /\ cloud_target = "none"
    /\ migrated = FALSE

PyBool(b) == IF b THEN "True" ELSE "False"

\* one call db.add_file_metadata(md)
AddFileMetadata(md) ==
    /\ pc = "store"
    /\ conn = "open"
    /\ LET res == add_file_metadata(files_table, md)
       IN  /\ files_table' = res.table
           /\ returned' = PyBool(res.returned)
    /\ UNCHANGED << importVars, pc, last, visualVars, maintVars >>

NextStore == \E md \in StoreMetadatas : AddFileMetadata(md)

SpecStore == InitStore /\ [][NextStore]_vars

\* C6: add_file_metadata with a hash that is present returns False and
\* leaves the table, and so every column of the existing row, as it was;
\* with an absent hash it returns True and the table gains exactly one row,
\* the one of that hash, every other row unchanged.
C6_InsertIfAbsent ==
    [][ \A md \in StoreMetadatas :
          AddFileMetadata(md) =>
            IF \E r \in files_table : r.file_hash = md.file_hash
            THEN returned' = "False" /\ files_table' = files_table
            ELSE /\ returned' = "True"
                 /\ files_table \subseteq files_table'
                 /\ Cardinality(files_table') = Cardinality(files_table) + 1
                 /\ \E r \in files_table' \ files_table :
                       /\ r.file_hash = md.file_hash
                       /\ r.current_path = md.current_path
                       /\ r.size = md.size
      ]_vars

\* C6 witness: a call has just been refused as a duplicate
C6_Witness ==
    /\ returned = "False"
    /\ files_table # {}

(* ---------------------------- detect_visual --------------------------- *)
HexDigitBits(d) ==
    CASE d = "0" -> <<0, 0, 0, 0>> [] d = "1" -> <<0, 0, 0, 1>>
      [] d = "2" -> <<0, 0, 1, 0>> [] d = "3" -> <<0, 0, 1, 1>>
      [] d = "4" -> <<0, 1, 0, 0>> [] d = "5" -> <<0, 1, 0, 1>>
      [] d = "6" -> <<0, 1, 1, 0>> [] d = "7" -> <<0, 1, 1, 1>>
      [] d = "8" -> <<1, 0, 0, 0>> [] d = "9" -> <<1, 0, 0, 1>>
      [] d = "a" -> <<1, 0, 1, 0>> [] d = "b" -> <<1, 0, 1, 1>>
      [] d = "c" -> <<1, 1, 0, 0>> [] d = "d" -> <<1, 1, 0, 1>>
      [] d = "e" -> <<1, 1, 1, 0>> [] d = "f" -> <<1, 1, 1, 1>>

\* imagehash.hex_to_hash: the bits of the hex string, most significant first
hex_to_hash(hexstr) ==
    [ k \in 1 .. 4 * Len(hexstr) |->
        HexDigitBits(hexstr[((k - 1) \div 4) + 1])[((k - 1) % 4) + 1] ]

\* variant: a distance that counts differing hex digits, not differing bits
Hamming_Nibbles(h1, h2) ==
    Cardinality({ n \in 1 .. (Len(h1) \div 4) :
                    \E k \in (4 * n - 3) .. (4 * n) : h1[k] # h2[k] })

\* hash1 - hash2 of imagehash: the number of bit positions that differ
Hamming(h1, h2) == Cardinality({ k \in 1 .. Len(h1) : h1[k] # h2[k] })

\* variant: strict comparison with the threshold
WithinThreshold_Strict(ph1, ph2, threshold) ==
    Hamming(hex_to_hash(ph1), hex_to_hash(ph2)) < threshold

\* line 531: hash1 - hash2 <= threshold
WithinThreshold(ph1, ph2, threshold) ==
    Hamming(hex_to_hash(ph1), hex_to_hash(ph2)) <= threshold

\* variant: with both flags set, videos and photos pass
PassesTypeFilter_Either(media_type, videos, photos) ==
    (videos \/ photos) =>
        \/ videos /\ media_type = "video"
        \/ photos /\ media_type = "photo"

\* lines 511-516: the type filter
PassesTypeFilter(media_type, videos, photos) ==
    /\ ~(videos /\ media_type # "video")
    /\ ~(photos /\ media_type # "photo")

\* the tuple kept per row (line 516)
FileTuple(r) ==
    [ file_hash |-> r.file_hash, filename |-> r.current_filename,
      path |-> r.current_path, media_type |-> r.media_type,
      phash |-> r.perceptual_hash ]

\* the (filename, path) pair a group holds (lines 524, 532)
Member(t) == [ filename |-> t.filename, path |-> t.path ]

\* variant: singleton groups are reported too
KeepGroup_All(group) == TRUE

\* line 534: only a group that gained a partner is reported
KeepGroup(group) == Len(group) > 1

\* variant: the inner loop ignores the visited set
InnerSkips_NoVisited(fs, i, j, vis) == i = j

\* line 528: is files[j] passed over by the inner loop of seed files[i]
InnerSkips(fs, i, j, vis) == i = j \/ fs[j].file_hash \in vis

\* lines 527-533: the inner loop from index j on, for the seed files[i]
RECURSIVE InnerLoop(_, _, _, _, _, _)
InnerLoop(fs, i, j, vis, group, threshold) ==
    IF j > Len(fs) THEN [visited |-> vis, group |-> group]
    ELSE IF InnerSkips(fs, i, j, vis)
         THEN InnerLoop(fs, i, j + 1, vis, group, threshold)
    ELSE IF WithinThreshold(fs[i].phash, fs[j].phash, threshold)
         THEN InnerLoop(fs, i, j + 1, vis \cup {fs[j].file_hash},
                        Append(group, Member(fs[j])), threshold)
    ELSE InnerLoop(fs, i, j + 1, vis, group, threshold)

\* q lists every element of S exactly once
IsScanOf(q, S) ==
    Len(q) = Cardinality(S) /\ { q[k] : k \in 1 .. Len(q) } = S

\* the orders in which a cursor can return the rows S
RECURSIVE SeqOf(_)
SeqOf(S) ==
    IF S = {} THEN { <<>> }
    ELSE UNION { { <<x>> \o q : q \in SeqOf(S \ {x}) } : x \in S }

\* detect_visual up to the clustering loops (lines 496-520); order: the rows
\* with a non-NULL perceptual_hash as the cursor returns them
detect_visual(videos, photos, order) ==
    /\ pc = "idle"
    /\ memory_exists
    /\ IsScanOf(order, { r \in files_table : r.perceptual_hash # NULL })
    /\ conn' = "open"
    /\ LET Keep(r) == PassesTypeFilter(r.media_type, videos, photos)
           kept == SelectSeq(order, Keep)
       IN  files' = [ k \in 1 .. Len(kept) |-> FileTuple(kept[k]) ]
    /\ visited' = {}
    /\ groups' = <<>>
    /\ outer_i' = 1
    /\ arg_videos' = videos
    /\ arg_photos' = photos
    /\ pc' = "visual"
    /\ last' = "running"
    /\ UNCHANGED << memory_exists, files_table, disk, pending, remaining,
                    managed_hashes, new_files_processed, loopLocals, clock, returned >>
    /\ UNCHANGED maintVars

\* one iteration of the outer loop (lines 521-535)
VisualSeed ==
    /\ pc = "visual"
    /\ outer_i <= Len(files)
    /\ IF files[outer_i].file_hash \in visited
       THEN UNCHANGED << visited, groups >>
       ELSE LET res == InnerLoop(files, outer_i, 1,
                                 visited \cup {files[outer_i].file_hash},
                                 <<Member(files[outer_i])>>, DefaultThreshold)
            IN  /\ visited' = res.visited
                /\ groups' = IF KeepGroup(res.group)
                             THEN Append(groups, res.group) ELSE groups
    /\ outer_i' = outer_i + 1
    /\ UNCHANGED << memory_exists, files_table, disk, conn, pc, pending, remaining,
                    managed_hashes, new_files_processed, loopLocals, last, clock,
                    returned, files, arg_videos, arg_photos >>
    /\ UNCHANGED maintVars

\* the groups are printed and the connection closed (lines 536-548)
VisualReport ==
    /\ pc = "visual"
    /\ outer_i > Len(files)
    /\ conn' = "closed"
    /\ last' = "reported"
    /\ pc' = "idle"
    /\ UNCHANGED << memory_exists, files_table, disk, pending, remaining,
                    managed_hashes, new_files_processed, loopLocals, clock,
                    returned, visualVars >>
    /\ UNCHANGED maintVars

\* a catalog whose rows have their fingerprints (as after
\* populate_perceptual_hashes): row k is the file a_k.jpg / a_k.mp4
VisualName(k) == Comp("a", k, IF k % 2 = 1 THEN "jpg" ELSE "mp4")
VisualRow(k, ph) ==
    [ InsertedRow(BuildMetadata(Entry(<<VisualName(k)>>, "file", k),
                                calculate_file_hash(k),
                                _get_memory_path \o <<VisualName(k)>>,
                                MetaEmpty, NULL, 1))
      EXCEPT !.perceptual_hash = ph ]

InitVisual ==
    /\ memory_exists = TRUE
    /\ \E n \in 0 .. MaxRecs :
          \E ph \in [1 .. n -> PhashPool \cup {NULL}] :
              files_table = { VisualRow(k, ph[k]) : k \in 1 .. n }
    /\ disk = [p \in RootPaths |-> NoFile]
    /\ conn = "closed"
    /\ pc = "idle"
    /\ pending = "none"
    /\ remaining = {}
    /\ managed_hashes = {}
    /\ new_files_processed = 0
    /\ filepath = NoEntry
    /\ file_hash = NoHash
    /\ dest_path = <<>>
    /\ last = "none"
    /\ clock = 1
    /\ returned = "None"
    /\ files = <<>>
    /\ outer_i = 0
    /\ visited = {}
    /\ groups = <<>>
    /\ arg_videos = FALSE
    /\ arg_photos = FALSE
    /\ columns = CreatedColumns
    /\ rows = {}
    /\ uncommitted = {}
    /\ cloud_target = "none"
    /\ migrated = FALSE

NextVisual ==
    \/ \E videos \in BOOLEAN, photos \in BOOLEAN :
          \E order \in SeqOf({ r \in files_table : r.perceptual_hash # NULL }) :
              detect_visual(videos, photos, order)
    \/ VisualSeed
    \/ VisualReport

SpecVisual == InitVisual /\ [][NextVisual]_vars

(* ------------------------- detect_visual: claims ---------------------- *)
VisualReported == pc = "idle" /\ last = "reported"

\* position in scan order of the record a group member stands for
PosOf(m) == CHOOSE k \in 1 .. Len(files) : Member(files[k]) = m

\* Hamming distance between the fingerprints of the records at p and q
Distance(p, q) == Hamming(hex_to_hash(files[p].phash), hex_to_hash(files[q].phash))

\* the record at p is a non-seed member of some reported group
Joined(p) ==
    \E g \in 1 .. Len(groups) : \E k \in 2 .. Len(groups[g]) :
        groups[g][k] = Member(files[p])

\* the record at p appears in some reported group
InSomeGroup(p) ==
    \E g \in 1 .. Len(groups) : \E k \in 1 .. Len(groups[g]) :
        groups[g][k] = Member(files[p])

\* C8: when detect_visual has reported, every cluster has at least two
\* members, its first member is the seed and precedes every other member in
\* scan order, and every other member is within the threshold Hamming
\* distance of the seed; when the input is exactly the fingerprints A, B, C
\* (AB = 3, AC = 9, BC = 8, threshold 5) the output is the single cluster
\* {A, B}, whatever the scan order.
C8_ClustersAroundSeed ==
    VisualReported =>
        /\ \A g \in 1 .. Len(groups) :
              /\ Len(groups[g]) >= 2
              /\ \A k \in 2 .. Len(groups[g]) :
                    /\ PosOf(groups[g][1]) < PosOf(groups[g][k])
                    /\ Distance(PosOf(groups[g][1]), PosOf(groups[g][k]))
                           <= DefaultThreshold
        /\ ( Len(files) = 3 /\ { files[k].phash : k \in 1 .. 3 } = {HexA, HexB, HexC} )
              => /\ Len(groups) = 1
                 /\ Len(groups[1]) = 2
                 /\ { files[PosOf(groups[1][k])].phash : k \in 1 .. 2 } = {HexA, HexB}

\* A, B, C scanned with C first: C seeds a singleton that is dropped
C8_Witness ==
    /\ VisualReported
    /\ Len(files) = 3
    /\ files[1].phash = HexC /\ files[2].phash = HexB /\ files[3].phash = HexA
    /\ Len(groups) = 1
    /\ files[PosOf(groups[1][1])].phash = HexB

\* C9: the reported clusters are pairwise disjoint (no record appears twice),
\* and a non-seed member is not within threshold of any seed that precedes
\* its own seed in scan order: it joined the earliest seed it matches.
C9_DisjointEarliestSeed ==
    VisualReported =>
        /\ \A g1, g2 \in 1 .. Len(groups) :
              \A k1 \in 1 .. Len(groups[g1]), k2 \in 1 .. Len(groups[g2]) :
                  groups[g1][k1] = groups[g2][k2] => (g1 = g2 /\ k1 = k2)
        /\ \A g \in 1 .. Len(groups) : \A k \in 2 .. Len(groups[g]) :
              \A p \in 1 .. Len(files) :
                  ( p < PosOf(groups[g][1]) /\ ~Joined(p) )
                      => Distance(p, PosOf(groups[g][k])) > DefaultThreshold

\* a member within threshold of its own seed and of a later seed
C9_Witness ==
    /\ VisualReported
    /\ \E g \in 1 .. Len(groups) : \E k \in 2 .. Len(groups[g]) :
          \E p \in 1 .. Len(files) :
              /\ p > PosOf(groups[g][1])
              /\ p # PosOf(groups[g][k])
              /\ ~Joined(p)
              /\ Distance(p, PosOf(groups[g][k])) <= DefaultThreshold

\* C10 as stated: a record left out of every reported cluster has no other
\* input record within threshold of it.
C10_LeftOutHasNoPartner ==
    VisualReported =>
        \A p \in 1 .. Len(files) :
            ~InSomeGroup(p) =>
                \A q \in 1 .. Len(files) :
                    q # p => Distance(p, q) > DefaultThreshold

\* C10: a record is left out of every reported cluster only if every other
\* input record within threshold of it is a non-seed member of a reported
\* cluster whose seed precedes the left-out record in scan order.
C10_LeftOutPartnersClaimed ==
    VisualReported =>
        \A p \in 1 .. Len(files) :
            ~InSomeGroup(p) =>
                \A q \in 1 .. Len(files) :
                    ( q # p /\ Distance(p, q) <= DefaultThreshold )
                        => \E g \in 1 .. Len(groups) : \E k \in 2 .. Len(groups[g]) :
                              /\ groups[g][k] = Member(files[q])
                              /\ PosOf(groups[g][1]) < p

\* a dropped singleton whose only partner was claimed by an earlier seed
C10_Witness ==
    /\ VisualReported
    /\ \E p, q \in 1 .. Len(files) :
          /\ q # p
          /\ ~InSomeGroup(p)
          /\ Joined(q)
          /\ Distance(p, q) <= DefaultThreshold

\* lines 521-535 as a function of the scanned list alone: the groups
\* reported for the list fs, from outer index i on
RECURSIVE OuterLoop(_, _, _, _)
OuterLoop(fs, i, vis, grps) ==
    IF i > Len(fs) THEN grps
    ELSE IF fs[i].file_hash \in vis THEN OuterLoop(fs, i + 1, vis, grps)
    ELSE LET res == InnerLoop(fs, i, 1, vis \cup {fs[i].file_hash},
                              <<Member(fs[i])>>, DefaultThreshold)
         IN  OuterLoop(fs, i + 1, res.visited,
                       IF KeepGroup(res.group) THEN Append(grps, res.group) ELSE grps)

\* the fingerprints of the members of the g-th reported group
GroupPhashes(g) == { files[PosOf(groups[g][k])].phash : k \in 1 .. Len(groups[g]) }

\* C11: what detect_visual reports is a function of the scan order alone,
\* and it is not invariant under reordering: with T = A, R = B, S = D (R and
\* S both within threshold of T, farther than threshold from each other) the
\* scan orders starting with T report the one cluster {T, R, S}, those
\* starting with R report {R, T} only and those starting with S report
\* {S, T} only.
C11_OrderDependent ==
    VisualReported =>
        /\ groups = OuterLoop(files, 1, {}, <<>>)
        /\ ( Len(files) = 3 /\ { files[k].phash : k \in 1 .. 3 } = {HexA, HexB, HexD} )
              => /\ Len(groups) = 1
                 /\ GroupPhashes(1) =
                       ( IF files[1].phash = HexA THEN {HexA, HexB, HexD}
                         ELSE {files[1].phash, HexA} )

\* R, T, S scanned in this order: S is left out
C11_Witness ==
    /\ VisualReported
    /\ Len(files) = 3
    /\ files[1].phash = HexB /\ files[2].phash = HexA /\ files[3].phash = HexD
    /\ Len(groups) = 1
    /\ GroupPhashes(1) = {HexA, HexB}

(* --------------------------- detect_samesize -------------------------- *)
\* lines 471-474: the type filter of detect_samesize
PassesSizeFilter(media_type, videos, photos) ==
    /\ ~(videos /\ media_type # "video")
    /\ ~(photos /\ media_type # "photo")

\* line 475: the (filename, path) pair appended to a size group
SizeMember(r) == [ filename |-> r.current_filename, path |-> r.current_path ]

\* the keys of size_groups in insertion order: the sizes of the rows of q
\* in order of first appearance
RECURSIVE SizeKeys(_, _)
SizeKeys(q, seen) ==
    IF q = <<>> THEN <<>>
    ELSE IF Head(q).size \in seen THEN SizeKeys(Tail(q), seen)
    ELSE <<Head(q).size>> \o SizeKeys(Tail(q), seen \cup {Head(q).size})

\* size_groups[size] after the loop of lines 470-475 over the kept rows
SizeGroup(kept, size) ==
    LET Same(r) == r.size = size
        same == SelectSeq(kept, Same)
    IN  [ k \in 1 .. Len(same) |-> SizeMember(same[k]) ]

\* variant: every size class is printed, singletons too
SizeGroupPrinted_All(fs) == TRUE

\* line 478: a size class is printed when it has more than one member
SizeGroupPrinted(fs) == Len(fs) > 1

\* lines 476-484: the groups printed, in the order of size_groups
RECURSIVE PrintedGroups(_, _)
PrintedGroups(kept, keys) ==
    IF keys = <<>> THEN <<>>
    ELSE LET fs == SizeGroup(kept, Head(keys))
         IN  (IF SizeGroupPrinted(fs) THEN <<fs>> ELSE <<>>)
                 \o PrintedGroups(kept, Tail(keys))

\* detect_samesize (lines 449-490); order: the rows as the cursor returns them
detect_samesize(videos, photos, order) ==
    /\ pc = "idle"
    /\ memory_exists
    /\ IsScanOf(order, files_table)
    /\ LET Keep(r) == PassesSizeFilter(r.media_type, videos, photos)
           kept == SelectSeq(order, Keep)
       IN  groups' = PrintedGroups(kept, SizeKeys(kept, {}))
    /\ arg_videos' = videos
    /\ arg_photos' = photos
    /\ conn' = "closed"
    /\ last' = "reported"
    /\ UNCHANGED << memory_exists, files_table, disk, pc, pending, remaining,
                    managed_hashes, new_files_processed, loopLocals, clock,
                    returned, files, outer_i, visited, maintVars >>

\* the sizes of the sample catalog
SampleSizes == <<100, 100, 200, 300, 300, 300>>

\* row k of the sample catalog: a_k.jpg (photo) for odd k, a_k.mp4 (video)
\* for even k, of size SampleSizes[k]
SizeRow(k) == [ VisualRow(k, NULL) EXCEPT !.size = SampleSizes[k] ]

InitSameSize ==
    /\ memory_exists = TRUE
    /\ files_table \in SUBSET { SizeRow(k) : k \in 1 .. Len(SampleSizes) }
    /\ disk = [p \in RootPaths |-> NoFile]
    /\ conn = "closed"
    /\ pc = "idle"
    /\ pending = "none"
    /\ remaining = {}
    /\ managed_hashes = {}
    /\ new_files_processed = 0
    /\ filepath = NoEntry
    /\ file_hash = NoHash
    /\ dest_path = <<>>
    /\ last = "none"
    /\ clock = 1
    /\ returned = "None"
    /\ files = <<>>
    /\ outer_i = 0
    /\ visited = {}
    /\ groups = <<>>
    /\ arg_videos = FALSE
    /\ arg_photos = FALSE
    /\ columns = CreatedColumns
    /\ rows = {}
    /\ uncommitted = {}
    /\ cloud_target = "none"
    /\ migrated = FALSE

NextSameSize ==
    \E videos \in BOOLEAN, photos \in BOOLEAN :
        \E order \in SeqOf(files_table) : detect_samesize(videos, photos, order)

SpecSameSize == InitSameSize /\ [][NextSameSize]_vars

\* the members of the printed groups
PrintedMembers(gs) ==
    UNION { { gs[g][k] : k \in 1 .. Len(gs[g]) } : g \in 1 .. Len(gs) }

\* the rows of table that pass the type filter and have size sz
SizeClass(table, videos, photos, sz) ==
    { r \in table : /\ ~(videos /\ r.media_type # "video")
                    /\ ~(photos /\ r.media_type # "photo")
                    /\ r.size = sz }

\* the members of the g-th printed group
GroupMembers(g) == { groups[g][k] : k \in 1 .. Len(groups[g]) }

\* C12: detect_samesize reports a record if and only if another record that
\* passes the type filter has exactly its size; every printed group is one
\* whole size class of more than one member, no class is printed twice; and
\* for the sizes [100,100,200,300,300,300] without a filter exactly the two
\* 100s and the three 300s are printed.
C12_SameSizeGroups ==
    last = "reported" =>
        /\ \A r \in files_table :
              (SizeMember(r) \in PrintedMembers(groups))
                <=> ( /\ r \in SizeClass(files_table, arg_videos, arg_photos, r.size)
                      /\ Cardinality(SizeClass(files_table, arg_videos, arg_photos, r.size)) > 1 )
        /\ \A g \in 1 .. Len(groups) :
              /\ Len(groups[g]) > 1
              /\ \E sz \in { r.size : r \in files_table } :
                    /\ GroupMembers(g) = { SizeMember(r) :
                           r \in SizeClass(files_table, arg_videos, arg_photos, sz) }
                    /\ Len(groups[g])
                         = Cardinality(SizeClass(files_table, arg_videos, arg_photos, sz))
              /\ \A g2 \in 1 .. Len(groups) :
                    g2 # g => groups[g2][1] \notin GroupMembers(g)
        /\ ( Cardinality(files_table) = Len(SampleSizes) /\ ~arg_videos /\ ~arg_photos )
              => { GroupMembers(g) : g \in 1 .. Len(groups) }
                   = { { SizeMember(SizeRow(1)), SizeMember(SizeRow(2)) },
                       { SizeMember(SizeRow(4)), SizeMember(SizeRow(5)),
                         SizeMember(SizeRow(6)) } }

\* the whole sample catalog has been grouped without a filter
C12_Witness ==
    /\ last = "reported"
    /\ ~arg_videos /\ ~arg_photos
    /\ Cardinality(files_table) = Len(SampleSizes)
    /\ Len(groups) = 2
    /\ { Len(groups[g]) : g \in 1 .. 2 } = {2, 3}

(* ------------------------- migrate_files_table ------------------------ *)
\* expected_columns of migrate_files_table (lines 663-678), in dict order
ExpectedNames ==
    << "file_hash", "original_filename", "current_filename", "original_path",
       "current_path", "size", "media_type", "date_added", "extracted_metadata",
       "uploaded_s3", "uploaded_gcloud", "uploaded_azure", "metadata_extracted",
       "perceptual_hash" >>

ExpectedColumns ==
    [ file_hash |-> "TEXT", original_filename |-> "TEXT",
      current_filename |-> "TEXT", original_path |-> "TEXT",
      current_path |-> "TEXT", size |-> "INTEGER", media_type |-> "TEXT",
      date_added |-> "TEXT", extracted_metadata |-> "TEXT",
      uploaded_s3 |-> "BOOLEAN DEFAULT FALSE",
      uploaded_gcloud |-> "BOOLEAN DEFAULT FALSE",
      uploaded_azure |-> "BOOLEAN DEFAULT FALSE",
      metadata_extracted |-> "BOOLEAN DEFAULT FALSE",
      perceptual_hash |-> "TEXT" ]

\* the expected columns the live table lacks, in the order of the loop
MissingColumns(live) ==
    LET Missing(c) == c \notin DOMAIN live
    IN  SelectSeq(ExpectedNames, Missing)

\* variant: the table is recreated with the expected columns
AddColumns_Recreate(live, n) == ExpectedColumns

\* lines 685-689: ALTER TABLE files ADD COLUMN for the first n missing columns
AddColumns(live, n) ==
    LET add == { MissingColumns(live)[k] : k \in 1 .. n }
    IN  [ c \in DOMAIN live \cup add |->
            IF c \in DOMAIN live THEN live[c] ELSE ExpectedColumns[c] ]

\* the schema pass of migrate_files_table (lines 651-695); the two other
\* passes follow (lines 697-698)
migrate_files_table ==
    /\ pc = "idle"
    /\ memory_exists
    /\ columns' = AddColumns(columns, Len(MissingColumns(columns)))
    /\ conn' = "closed"
    /\ pc' = "paths"
    /\ last' = "running"
    /\ UNCHANGED << memory_exists, files_table, disk, pending, remaining,
                    managed_hashes, new_files_processed, loopLocals, clock,
                    returned, visualVars, rows, uncommitted, migrated >>
    /\ UNCHANGED cloud_target

\* a statement of lines 682-690 raises (the store is locked or unwritable)
\* after n columns were added: nothing catches it, conn.close() of line 691
\* is not reached and the exception leaves migrate_files_table
migrate_files_table_raises(n) ==
    /\ pc = "idle"
    /\ memory_exists
    /\ n \in 0 .. Len(MissingColumns(columns))
    /\ columns' = AddColumns(columns, n)
    /\ conn' = "open"
    /\ last' = "raised"
    /\ migrated' = FALSE
    /\ UNCHANGED << memory_exists, files_table, disk, pc, pending, remaining,
                    managed_hashes, new_files_processed, loopLocals, clock,
                    returned, visualVars, rows, uncommitted >>
    /\ UNCHANGED cloud_target

\* variant: a stored form that alternates between relative and absolute
RelativeForm_Toggle(path) ==
    IF IsAbsolute(path) THEN _to_relative_path(path, _get_memory_path)
    ELSE _from_relative_path(path, _get_memory_path)

\* lines 720-721: the root-relative form of a stored path
RelativeForm(path) ==
    _to_relative_path(_from_relative_path(path, _get_memory_path), _get_memory_path)

\* memory_path / None of lines 720-721 raises TypeError
PathRaises(r) == r.current_path = NULL \/ r.original_path = NULL

\* lines 719-724 applied to every row
RelativeRows(table) ==
    { [r EXCEPT !.current_path = RelativeForm(r.current_path),
                !.original_path = RelativeForm(r.original_path)] : r \in table }

\* migrate_paths_to_relative (lines 700-730): the UPDATEs are committed after
\* the loop (line 725); an exception in the loop is caught, nothing is
\* committed and close() discards the UPDATEs already executed
migrate_paths_to_relative ==
    /\ pc = "paths"
    /\ IF \E r \in files_table : PathRaises(r)
       THEN /\ last' = "error"
            /\ UNCHANGED files_table
       ELSE /\ last' = "running"
            /\ files_table' = RelativeRows(files_table)
    /\ conn' = "closed"
    /\ pc' = "relocate"
    /\ UNCHANGED << memory_exists, disk, pending, remaining, managed_hashes,
                    new_files_processed, loopLocals, clock, returned,
                    visualVars, maintVars >>

(* ----------------------- migrate_files_to_memory ---------------------- *)
\* line 624: abs_path.parent == memory_path
InMemoryFolder(abs_path) ==
    /\ Len(abs_path) = Len(_get_memory_path) + 1
    /\ IsPrefix(_get_memory_path, abs_path)

\* lines 629-639: where the file at abs_path is moved to; <<>> stands for the
\* `continue` taken when the occupant of the destination has the same content
MoveDest(abs_path, d, now) ==
    LET name == PathName(abs_path)
        first == _get_memory_path \o <<name>>
    IN  IF exists(d, first)
        THEN IF calculate_file_hash(d[first]) = calculate_file_hash(d[abs_path])
             THEN <<>>
             ELSE _get_memory_path
                    \o <<Comp(name.stem, generate_timestamp_suffix(now), name.ext)>>
        ELSE first

\* lines 623-628, 635: the row is passed over
MoveSkips(r, d, now) ==
    LET abs_path == _from_relative_path(r.current_path, _get_memory_path)
    IN  \/ InMemoryFolder(abs_path)
        \/ ~exists(d, abs_path)
        \/ MoveDest(abs_path, d, now) = <<>>

\* the UPDATEs of ups applied to table (what commit makes durable)
ApplyUpdates(table, ups) ==
    { IF \E u \in ups : u.file_hash = r.file_hash
      THEN [r EXCEPT !.current_path =
               (CHOOSE u \in ups : u.file_hash = r.file_hash).current_path]
      ELSE r : r \in table }

\* migrate_files_to_memory up to its loop (lines 602-621)
migrate_files_to_memory ==
    /\ pc = "relocate"
    /\ conn' = "open"
    /\ rows' = files_table
    /\ uncommitted' = {}
    /\ pc' = "relocating"
    /\ UNCHANGED << memory_exists, files_table, disk, pending, remaining,
                    managed_hashes, new_files_processed, loopLocals, last,
                    clock, returned, visualVars, columns, migrated >>
    /\ UNCHANGED cloud_target

\* one iteration of the loop (lines 622-643)
MoveRow(r) ==
    /\ pc = "relocating"
    /\ r \in rows
    /\ rows' = rows \ {r}
    /\ LET abs_path == _from_relative_path(r.current_path, _get_memory_path)
           dest == MoveDest(abs_path, disk, clock)
       IN  IF MoveSkips(r, disk, clock)
           THEN UNCHANGED << disk, uncommitted >>
           ELSE /\ disk' = [disk EXCEPT ![abs_path] = NoFile, ![dest] = disk[abs_path]]
                /\ uncommitted' =
                      { u \in uncommitted : u.file_hash # r.file_hash }
                        \cup { [ file_hash |-> r.file_hash,
                                 current_path |-> _to_relative_path(dest, _get_memory_path) ] }
    /\ UNCHANGED << memory_exists, files_table, conn, pc, pending, remaining,
                    managed_hashes, new_files_processed, loopLocals, last,
                    clock, returned, visualVars, columns, migrated >>
    /\ UNCHANGED cloud_target

\* shutil.move of line 640 raises for the row r: the handler of line 646
\* prints the error, nothing is committed and close() discards the UPDATEs
MoveRaises(r) ==
    /\ pc = "relocating"
    /\ r \in rows
    /\ ~MoveSkips(r, disk, clock)
    /\ rows' = {}
    /\ uncommitted' = {}
    /\ conn' = "closed"
    /\ pc' = "idle"
    /\ last' = "error"
    /\ migrated' = FALSE
    /\ UNCHANGED << memory_exists, files_table, disk, pending, remaining,
                    managed_hashes, new_files_processed, loopLocals, clock,
                    returned, visualVars, columns >>
    /\ UNCHANGED cloud_target

\* after the loop (lines 644-649): commit, report, close
FinishMove ==
    /\ pc = "relocating"
    /\ rows = {}
    /\ files_table' = ApplyUpdates(files_table, uncommitted)
    /\ uncommitted' = {}
    /\ conn' = "closed"
    /\ pc' = "idle"
    /\ last' = "reported"
    /\ migrated' = TRUE
    /\ UNCHANGED << memory_exists, disk, pending, remaining, managed_hashes,
                    new_files_processed, loopLocals, clock, returned,
                    visualVars, columns, rows >>
    /\ UNCHANGED cloud_target

\* the clock advances during a maintenance run
MaintTick ==
    /\ clock < MaxClock
    /\ clock' = clock + 1
    /\ UNCHANGED << memory_exists, files_table, disk, conn, pc, pending,
                    remaining, managed_hashes, new_files_processed, loopLocals,
                    last, returned, visualVars, maintVars >>

\* a schema older than the expected one: it lacks the two newest columns and
\* still has one the program no longer names
LegacyColumns ==
    [ c \in (DOMAIN ExpectedColumns \ {"metadata_extracted", "perceptual_hash"})
              \cup {"thumbnail"} |->
        IF c = "thumbnail" THEN "BLOB" ELSE ExpectedColumns[c] ]

\* files outside the catalog root that legacy rows point at
ExternalPaths ==
    { <<DirName("home"), DirName(e), FileName("a", "jpg")>> : e \in {"ext1", "ext2"} }

\* the stored current_path of a row: root-relative (current pipeline),
\* absolute under the root or absolute outside it (legacy)
StoredPaths ==
    { <<FileName("a", "jpg")>>, _get_memory_path \o <<FileName("a", "jpg")>> }
        \cup ExternalPaths

\* the row of content c stored at cur, with original_path orig
MigRow(c, cur, orig) ==
    [ InsertedRow(BuildMetadata(Entry(<<FileName("a", "jpg")>>, "file", c),
                                calculate_file_hash(c), _get_memory_path \o <<PathName(cur)>>,
                                MetaEmpty, NULL, 1))
      EXCEPT !.current_path = cur, !.original_path = orig ]

\* catalogs of at most MaxFiles rows, one per content
MigTables(cols) ==
    LET origs == IF "original_path" \in DOMAIN cols
                 THEN {NULL, <<DirName("home"), DirName("ext1"), FileName("a", "jpg")>>}
                 ELSE {NULL}
        pool == { MigRow(c, cur, orig) : c \in Contents, cur \in StoredPaths, orig \in origs }
    IN  { T \in SUBSET pool : /\ Cardinality(T) <= MaxFiles
                              /\ \A r1, r2 \in T : r1.file_hash = r2.file_hash => r1 = r2 }

MigPaths == { _get_memory_path \o <<FileName("a", "jpg")>> } \cup ExternalPaths

InitMigrate ==
    /\ memory_exists = TRUE
    /\ columns \in {CreatedColumns, ExpectedColumns, LegacyColumns}
    /\ files_table \in MigTables(columns)
    /\ \E d \in [MigPaths -> {NoFile} \cup Contents] :
          disk = [ p \in RootPaths \cup ExternalPaths |->
                     IF p \in MigPaths THEN d[p] ELSE NoFile ]
    /\ conn = "closed"
    /\ pc = "idle"
    /\ pending = "none"
    /\ remaining = {}
    /\ managed_hashes = {}
    /\ new_files_processed = 0
    /\ filepath = NoEntry
    /\ file_hash = NoHash
    /\ dest_path = <<>>
    /\ last = "none"
    /\ clock = 1
    /\ returned = "None"
    /\ files = <<>>
    /\ outer_i = 0
    /\ visited = {}
    /\ groups = <<>>
    /\ arg_videos = FALSE
    /\ arg_photos = FALSE
    /\ rows = {}
    /\ uncommitted = {}
    /\ cloud_target = "none"
    /\ migrated = FALSE

NextMigrate ==
    \/ migrate_files_table
    \/ \E n \in 0 .. Len(ExpectedNames) : migrate_files_table_raises(n)
    \/ migrate_paths_to_relative
    \/ migrate_files_to_memory
    \/ \E r \in rows : MoveRow(r)
    \/ \E r \in rows : MoveRaises(r)
    \/ FinishMove
    \/ MaintTick

SpecMigrate == InitMigrate /\ [][NextMigrate]_vars

(* --------------------------- migration: claims ------------------------ *)
MigrationDone == migrated /\ pc = "idle"

\* the file a row refers to
Resolved(r) == _from_relative_path(r.current_path, _get_memory_path)

\* C13: once a migrate_files_table run has gone through its schema, path and
\* relocation passes, a run that follows it directly adds no column, changes
\* no stored path (no row at all) and moves no file.
C13_SecondRunChangesNothing ==
    [][ migrated =>
          /\ columns' = columns
          /\ files_table' = files_table
          /\ disk' = disk
          /\ uncommitted' = {} ]_vars

\* the relocation loop of a following run has gone over a catalog of two rows
C13_Witness ==
    /\ migrated
    /\ pc = "relocating"
    /\ rows = {}
    /\ Cardinality(files_table) = 2
    /\ \E r \in files_table : r.original_path # NULL

\* C14: after a completed maintenance run no row stores an absolute path
\* under the catalog root: each such path has been replaced by its
\* root-relative form.
C14_AbsolutePathsMadeRelative ==
    MigrationDone =>
        \A r \in files_table :
            ~( IsAbsolute(r.current_path) /\ IsPrefix(_get_memory_path, r.current_path) )

\* C15: after a completed relocation no row still refers to an existing file
\* outside the catalog root: every row whose backing file existed outside
\* the root has been given a location inside it.
C15_RelocatedIntoRoot ==
    MigrationDone =>
        \A r \in files_table :
            ~( ~IsPrefix(_get_memory_path, Resolved(r)) /\ exists(disk, Resolved(r)) )

\* the default a column added by ALTER TABLE gives the existing rows
DefaultOf(c) == IF c \in {"uploaded_s3", "uploaded_gcloud", "uploaded_azure",
                          "metadata_extracted"} THEN FALSE ELSE NULL

\* C16: the schema pass is additive: no step drops or retypes a column; after
\* the pass the live columns are the previous ones together with the expected
\* ones, the added columns have their expected declaration and hold their
\* default in every row, and every row is otherwise as it was.
C16_SchemaMigrationAdditive ==
    [][ /\ \A c \in DOMAIN columns : c \in DOMAIN columns' /\ columns'[c] = columns[c]
        /\ (pc = "idle" /\ pc' = "paths") =>
              /\ DOMAIN columns' = DOMAIN columns \cup DOMAIN ExpectedColumns
              /\ \A c \in DOMAIN columns' \ DOMAIN columns :
                    /\ columns'[c] = ExpectedColumns[c]
                    /\ \A r \in files_table' : r[c] = DefaultOf(c)
              /\ files_table' = files_table ]_vars

\* the schema pass has run on a legacy table with rows: the old column is
\* still there and the two newest ones were added
C16_Witness ==
    /\ pc = "paths"
    /\ files_table # {}
    /\ {"thumbnail", "perceptual_hash", "metadata_extracted"} \subseteq DOMAIN columns
    /\ columns["extracted_metadata"] = "TEXT"

\* C20: whenever no operation is running its connection has been closed.
C20_ConnectionClosed == pc = "idle" => conn = "closed"

(* --------------------- mark_uploaded, upload_to_cloud ------------------ *)
\* the targets upload_to_cloud accepts (core.py line 264)
CloudTargets == {"s3", "gcloud", "azure"}

\* variant: an upload to one target marks the row for every target
mark_uploaded_Everywhere(table, h, target) ==
    { IF r.file_hash = h
      THEN [r EXCEPT !.uploaded_s3 = TRUE, !.uploaded_gcloud = TRUE,
                     !.uploaded_azure = TRUE]
      ELSE r : r \in table }

\* variant: marking one target clears the row's other flags
mark_uploaded_Exclusive(table, h, target) ==
    { IF r.file_hash = h
      THEN [r EXCEPT !.uploaded_s3 = (target = "s3"),
                     !.uploaded_gcloud = (target = "gcloud"),
                     !.uploaded_azure = (target = "azure")]
      ELSE r : r \in table }

\* MemoryDB.mark_uploaded (db.py lines 124-133): the table afterwards
mark_uploaded(table, h, target) ==
    { IF r.file_hash # h THEN r
      ELSE IF target = "s3" THEN [r EXCEPT !.uploaded_s3 = TRUE]
      ELSE IF target = "gcloud" THEN [r EXCEPT !.uploaded_gcloud = TRUE]
      ELSE IF target = "azure" THEN [r EXCEPT !.uploaded_azure = TRUE]
      ELSE r : r \in table }

\* variant: the query without its WHERE clause
get_unuploaded_files_All(table, target) == table

\* MemoryDB.get_unuploaded_files (db.py lines 97-122), the compressed
\* metadata decompressed for the caller
get_unuploaded_files(table, target) ==
    LET Unuploaded(r) ==
            IF target = "s3" THEN ~r.uploaded_s3
            ELSE IF target = "gcloud" THEN ~r.uploaded_gcloud
            ELSE IF target = "azure" THEN ~r.uploaded_azure
            ELSE ~r.uploaded_s3 \/ ~r.uploaded_gcloud \/ ~r.uploaded_azure
    IN  { [r EXCEPT !.extracted_metadata =
              IF r.extracted_metadata # NULL
              THEN gzip_decompress(r.extracted_metadata) ELSE NULL] :
          r \in { x \in table : Unuploaded(x) } }

\* one call db.mark_uploaded(file_hash, cloud_target) on a connected MemoryDB
MarkUploaded(h, target) ==
    /\ pc = "store"
    /\ conn = "open"
    /\ file_hash' = h
    /\ cloud_target' = target
    /\ files_table' = mark_uploaded(files_table, h, target)
    /\ UNCHANGED << memory_exists, disk, conn, pc, pending, remaining,
                    managed_hashes, new_files_processed, filepath, dest_path,
                    last, clock, returned, visualVars, columns, rows,
                    uncommitted, migrated >>

\* upload_to_cloud up to its loop (lines 254-276)
upload_to_cloud(target) ==
    /\ pc = "idle"
    /\ memory_exists
    /\ cloud_target' = target
    /\ IF target \notin CloudTargets
       THEN /\ last' = "refused"
            /\ UNCHANGED << conn, pc, rows >>
       ELSE LET unuploaded_files == get_unuploaded_files(files_table, target)
            IN  IF unuploaded_files = {}
                THEN /\ conn' = "closed"
                     /\ last' = "nothing to upload"
                     /\ UNCHANGED << pc, rows >>
                ELSE /\ conn' = "open"
                     /\ rows' = unuploaded_files
                     /\ pc' = "uploading"
                     /\ last' = "running"
    /\ UNCHANGED << memory_exists, files_table, disk, pending, remaining,
                    managed_hashes, new_files_processed, loopLocals, clock,
                    returned, visualVars, columns, uncommitted, migrated >>

\* variant: a missing file ends the loop
AfterSkip_Break(rs, r) == {}

\* line 281: `continue`, the rows still to be processed after r was skipped
AfterSkip(rs, r) == rs \ {r}

\* one iteration of the loop (lines 277-298)
UploadRow(r) ==
    /\ pc = "uploading"
    /\ r \in rows
    /\ IF ~exists(disk, _from_relative_path(r.current_path, _get_memory_path))
       THEN /\ rows' = AfterSkip(rows, r)
            /\ UNCHANGED files_table
       ELSE /\ rows' = rows \ {r}
            /\ files_table' = mark_uploaded(files_table, r.file_hash, cloud_target)
    /\ UNCHANGED << memory_exists, disk, conn, pc, pending, remaining,
                    managed_hashes, new_files_processed, loopLocals, last,
                    clock, returned, visualVars, columns, uncommitted,
                    cloud_target, migrated >>

\* after the loop (lines 300-305)
FinishUpload ==
    /\ pc = "uploading"
    /\ rows = {}
    /\ conn' = "closed"
    /\ pc' = "idle"
    /\ last' = "reported"
    /\ UNCHANGED << memory_exists, files_table, disk, pending, remaining,
                    managed_hashes, new_files_processed, loopLocals, clock,
                    returned, visualVars, maintVars >>

(* --------------------------- delete_file_by_id ------------------------ *)
\* variant: DELETE without its WHERE clause
delete_row_All(table, record_id) == {}

\* line 441: DELETE FROM files WHERE file_hash = ?
delete_row(table, record_id) == { r \in table : r.file_hash # record_id }

\* delete_file_by_id up to the unlink (lines 411-432)
delete_file_by_id(record_id) ==
    /\ pc = "idle"
    /\ memory_exists
    /\ IF \E r \in files_table : r.file_hash = record_id
       THEN /\ rows' = { r \in files_table : r.file_hash = record_id }
            /\ conn' = "open"
            /\ pc' = "unlink"
            /\ last' = "running"
       ELSE /\ conn' = "closed"
            /\ last' = "not found"
            /\ UNCHANGED << pc, rows >>
    /\ UNCHANGED << memory_exists, files_table, disk, pending, remaining,
                    managed_hashes, new_files_processed, loopLocals, clock,
                    returned, visualVars, columns, uncommitted, cloud_target,
                    migrated >>

\* lines 433-438: the backing file is unlinked when it exists
DeleteUnlink ==
    /\ pc = "unlink"
    /\ \E r \in rows :
          LET file_path == _from_relative_path(r.current_path, _get_memory_path)
          IN  disk' = IF exists(disk, file_path)
                      THEN [disk EXCEPT ![file_path] = NoFile] ELSE disk
    /\ pc' = "delete row"
    /\ UNCHANGED << memory_exists, files_table, conn, pending, remaining,
                    managed_hashes, new_files_processed, loopLocals, last,
                    clock, returned, visualVars, maintVars >>

\* lines 439-440: unlink raises, the error is printed, the file stays
DeleteUnlinkRaises ==
    /\ pc = "unlink"
    /\ \E r \in rows : exists(disk, _from_relative_path(r.current_path, _get_memory_path))
    /\ pc' = "delete row"
    /\ last' = "unlink error"
    /\ UNCHANGED << memory_exists, files_table, disk, conn, pending, remaining,
                    managed_hashes, new_files_processed, loopLocals, clock,
                    returned, visualVars, maintVars >>

\* lines 441-447: the row is deleted, the change committed, the store closed
DeleteRow ==
    /\ pc = "delete row"
    /\ \E r \in rows : files_table' = delete_row(files_table, r.file_hash)
    /\ rows' = {}
    /\ conn' = "closed"
    /\ pc' = "idle"
    /\ last' = IF last = "unlink error" THEN "unlink error" ELSE "deleted"
    /\ UNCHANGED << memory_exists, disk, pending, remaining, managed_hashes,
                    new_files_processed, loopLocals, clock, returned,
                    visualVars, columns, uncommitted, cloud_target, migrated >>

(* ------------------- catalogs for upload and deletion ------------------ *)
ManageName(k) == Comp("a", k, "jpg")
ManagePath(k) == _get_memory_path \o <<ManageName(k)>>

\* a row as the import pipeline leaves it, then marked for some targets
ManageRow(k, up) ==
    [ InsertedRow(BuildMetadata(Entry(<<ManageName(k)>>, "file", k),
                                calculate_file_hash(k), ManagePath(k),
                                MetaEmpty, NULL, 1))
      EXCEPT !.uploaded_s3 = up[1], !.uploaded_gcloud = up[2],
             !.uploaded_azure = up[3] ]

\* the hashes a caller can name: one per content, stored or not
ManageHashes == { calculate_file_hash(c) : c \in Contents }

InitManage ==
    /\ memory_exists = TRUE
    /\ columns = CreatedColumns
    /\ \E n \in 0 .. MaxFiles :
          /\ \E up \in [1 .. n -> BOOLEAN \X BOOLEAN \X BOOLEAN] :
                files_table = { ManageRow(k, up[k]) : k \in 1 .. n }
          /\ \E present \in SUBSET (1 .. n) :
                disk = [ p \in RootPaths \cup { ManagePath(k) : k \in 1 .. MaxFiles } |->
                           IF \E k \in present : p = ManagePath(k)
                           THEN CHOOSE k \in present : p = ManagePath(k)
                           ELSE NoFile ]
    /\ \/ pc = "idle" /\ conn = "closed"
       \/ pc = "store" /\ conn = "open"
    /\ pending = "none"
    /\ remaining = {}
    /\ managed_hashes = {}
    /\ new_files_processed = 0
    /\ filepath = NoEntry
    /\ file_hash = NoHash
    /\ dest_path = <<>>
    /\ last = "none"
    /\ clock = 1
    /\ returned = "None"
    /\ files = <<>>
    /\ outer_i = 0
    /\ visited = {}
    /\ groups = <<>>
    /\ arg_videos = FALSE
    /\ arg_photos = FALSE
    /\ rows = {}
    /\ uncommitted = {}
    /\ cloud_target = "none"
    /\ migrated = FALSE

NextManage ==
    \/ \E h \in ManageHashes, target \in CloudTargets \cup {"ftp"} : MarkUploaded(h, target)
    \/ \E target \in CloudTargets \cup {"ftp"} : upload_to_cloud(target)
    \/ \E r \in rows : UploadRow(r)
    \/ FinishUpload
    \/ \E h \in ManageHashes : delete_file_by_id(h)
    \/ DeleteUnlink
    \/ DeleteUnlinkRaises
    \/ DeleteRow

SpecManage == InitManage /\ [][NextManage]_vars

(* -------------------- claims on deletion and upload -------------------- *)
\* the backing file of a row
BackingFile(r) == _from_relative_path(r.current_path, _get_memory_path)

\* a step of delete_file_by_id that answers "not found"
NotFoundStep == pc = "idle" /\ pc' = "idle" /\ last' = "not found"

\* the step of delete_file_by_id that deletes the row and returns
DeleteReturns == pc = "delete row" /\ pc' = "idle"

\* the filesystem differs at most in the backing file of the looked-up row
OnlyBackingFileTouched ==
    \A p \in DOMAIN disk :
        disk'[p] # disk[p] => \E r \in rows : p = BackingFile(r) /\ disk'[p] = NoFile

C17_UnlinkFailed ==
    /\ pc = "idle"
    /\ last = "unlink error"
    /\ \E k \in 1 .. MaxFiles :
          /\ exists(disk, ManagePath(k))
          /\ \A r \in files_table : r.file_hash # calculate_file_hash(k)

\* the flag column of a target
Flag(r, target) ==
    CASE target = "s3" -> r.uploaded_s3
      [] target = "gcloud" -> r.uploaded_gcloud
      [] target = "azure" -> r.uploaded_azure
      [] OTHER -> FALSE

FlagColumn(target) ==
    CASE target = "s3" -> "uploaded_s3"
      [] target = "gcloud" -> "uploaded_gcloud"
      [] target = "azure" -> "uploaded_azure"
      [] OTHER -> "none"

\* C18: mark_uploaded(hash, target) with target in {s3, gcloud, azure} sets
\* that target's flag of the row of that hash to true and leaves the row's
\* other columns and every other row as they were; with an absent hash or a
\* target outside the set nothing changes.
C18_MarkUploadedFrame ==
    [][ pc = "store" =>
          /\ Cardinality(files_table') = Cardinality(files_table)
          /\ \A r \in files_table :
                \E r2 \in files_table' :
                   /\ r2.file_hash = r.file_hash
                   /\ \A c \in DOMAIN r :
                         IF /\ r.file_hash = file_hash'
                            /\ c = FlagColumn(cloud_target')
                         THEN r2[c] = TRUE
                         ELSE r2[c] = r[c]
          /\ (file_hash' \notin { r.file_hash : r \in files_table }
                \/ cloud_target' \notin CloudTargets) => files_table' = files_table ]_vars

\* one row of two was marked for one target and carries no other flag, the
\* other row carries no flag at all
C18_Witness ==
    /\ pc = "store"
    /\ cloud_target \in CloudTargets
    /\ Cardinality(files_table) = 2
    /\ \E r \in files_table :
          /\ r.file_hash = file_hash
          /\ \A t \in CloudTargets : Flag(r, t) <=> t = cloud_target
    /\ \E r \in files_table :
          /\ r.file_hash # file_hash
          /\ \A t \in CloudTargets : ~Flag(r, t)

\* the row of the catalog a fetched row was read from
Stored(r) == { x \in files_table : x.file_hash = r.file_hash }

\* C19: during upload_to_cloud(target) a row whose current_path does not
\* resolve to an existing file is skipped, its flag for the target stays
\* false, and every remaining un-uploaded row is still processed: the loop
\* goes on with the other rows and ends only when none is left, every row
\* with a backing file then being marked.
C19_MissingFileSkipped ==
    [][ pc = "uploading" =>
          /\ disk' = disk
          /\ \A r \in rows :
                /\ \E x \in Stored(r) : ~Flag(x, cloud_target)
                /\ (r \notin rows' /\ ~exists(disk, BackingFile(r))) =>
                      /\ files_table' = files_table
                      /\ rows' = rows \ {r}
                      /\ pc' = "uploading"
                /\ (r \notin rows' /\ exists(disk, BackingFile(r))) =>
                      /\ rows' = rows \ {r}
                      /\ \A x \in files_table' :
                            x.file_hash = r.file_hash => Flag(x, cloud_target)
          /\ pc' = "idle" =>
                /\ rows = {}
                /\ files_table' = files_table
                /\ \A x \in files_table :
                      exists(disk, BackingFile(x)) => Flag(x, cloud_target) ]_vars

\* an upload returned having skipped one row, whose file is missing and whose
\* flag is still false, and having marked the other
C19_Witness ==
    /\ pc = "idle"
    /\ last = "reported"
    /\ cloud_target \in CloudTargets
    /\ \E x \in files_table : ~exists(disk, BackingFile(x)) /\ ~Flag(x, cloud_target)
    /\ \E x \in files_table : exists(disk, BackingFile(x)) /\ Flag(x, cloud_target)

(* ------------------------- metadata round trip ------------------------- *)
\* the rows of the table that an insert of md created
InsertedWith(md) == { r \in files_table : r = InsertedRow(md) }

\* C21: for every row inserted with extracted_metadata JSON text m,
\* get_file_by_hash and get_unuploaded_files return extracted_metadata equal
\* to m: the text is compressed on write, decompressed on read, and neither
\* reader hands out the compressed bytes.
C21_MetadataRoundTrip ==
    \A md \in StoreMetadatas :
        InsertedWith(md) # {} =>
            /\ \A r \in InsertedWith(md) :
                  r.extracted_metadata = gzip_compress(md.extracted_metadata)
            /\ Len(get_file_by_hash(files_table, md.file_hash)) = 1
            /\ get_file_by_hash(files_table, md.file_hash)[1].extracted_metadata
                   = md.extracted_metadata
            /\ \A t \in CloudTargets \cup {"none"} :
                  /\ \E u \in get_unuploaded_files(files_table, t) :
                        u.file_hash = md.file_hash
                  /\ \A u \in get_unuploaded_files(files_table, t) :
                        u.file_hash = md.file_hash =>
                            u.extracted_metadata = md.extracted_metadata

\* two rows are stored, one written with the empty JSON object and one with
\* a non-empty one, and both are read back as written
C21_Witness ==
    /\ pc = "store"
    /\ \E r1, r2 \in files_table :
          /\ get_file_by_hash(files_table, r1.file_hash)[1].extracted_metadata = MetaEmpty
          /\ get_file_by_hash(files_table, r2.file_hash)[1].extracted_metadata = MetaFull
          /\ r1.extracted_metadata # MetaEmpty
          /\ r2.extracted_metadata # MetaFull

(* ------------------------ init on an existing root --------------------- *)
\* C23: init_memory run where the catalog root already exists returns False
\* and leaves the existing catalog unchanged: no row is added, changed or
\* removed, no file is copied or deleted, and no scan is started.
C23_InitRefusedOnExistingRoot ==
    [][ \A H \in Folders :
          (memory_exists /\ init_memory(H)) =>
              /\ returned' = "False"
              /\ pc' = "idle"
              /\ memory_exists'
              /\ files_table' = files_table
              /\ columns' = columns
              /\ disk' = disk
              /\ conn' = conn ]_vars

\* init was refused on a catalog that holds a row and its file
C23_Witness ==
    /\ pc = "idle"
    /\ last = "refused"
    /\ returned = "False"
    /\ memory_exists
    /\ \E r \in files_table : exists(disk, RootPath(r.current_path))

(* ------------------------------ delete_memory -------------------------- *)
\* a path below the catalog root
UnderRoot(p) == IsPrefix(_get_memory_path, p) /\ Len(p) > Len(_get_memory_path)

\* delete_memory up to its loop (lines 307-322): the stored paths of all
\* rows are fetched
delete_memory ==
    /\ pc = "idle"
    /\ memory_exists
    /\ conn' = "open"
    /\ rows' = files_table
    /\ pc' = "destroy"
    /\ last' = "running"
    /\ UNCHANGED << memory_exists, files_table, disk, pending, remaining,
                    managed_hashes, new_files_processed, loopLocals, clock,
                    returned, visualVars, columns, uncommitted, cloud_target,
                    migrated >>

\* variant: the first failure ends the loop
AfterUnlinkError_Stop(rs, r) == {}

\* lines 331-332: the error is printed and the loop goes on with the rows
\* that are left
AfterUnlinkError(rs, r) == rs \ {r}

\* lines 323-330: the file of one row is unlinked when it exists
DestroyUnlink(r) ==
    /\ pc = "destroy"
    /\ r \in rows
    /\ LET file_path == _from_relative_path(r.current_path, _get_memory_path)
       IN  disk' = IF exists(disk, file_path)
                   THEN [disk EXCEPT ![file_path] = NoFile] ELSE disk
    /\ rows' = rows \ {r}
    /\ UNCHANGED << memory_exists, files_table, conn, pc, pending, remaining,
                    managed_hashes, new_files_processed, loopLocals, last,
                    clock, returned, visualVars, columns, uncommitted,
                    cloud_target, migrated >>

\* lines 331-332: unlink raises for the file of one row
DestroyUnlinkRaises(r) ==
    /\ pc = "destroy"
    /\ r \in rows
    /\ exists(disk, _from_relative_path(r.current_path, _get_memory_path))
    /\ rows' = AfterUnlinkError(rows, r)
    /\ last' = "unlink error"
    /\ UNCHANGED << memory_exists, files_table, disk, conn, pc, pending,
                    remaining, managed_hashes, new_files_processed, loopLocals,
                    clock, returned, visualVars, columns, uncommitted,
                    cloud_target, migrated >>

\* lines 333-340: the store is closed and shutil.rmtree removes the root
\* with the store and every file below it
RemoveTree ==
    /\ pc = "destroy"
    /\ rows = {}
    /\ conn' = "closed"
    /\ memory_exists' = FALSE
    /\ files_table' = {}
    /\ columns' = NoColumns
    /\ disk' = [ p \in DOMAIN disk |-> IF UnderRoot(p) THEN NoFile ELSE disk[p] ]
    /\ pc' = "idle"
    /\ last' = IF last = "unlink error" THEN "destroyed, unlink error" ELSE "destroyed"
    /\ UNCHANGED << pending, remaining, managed_hashes, new_files_processed,
                    loopLocals, clock, returned, visualVars, rows, uncommitted,
                    cloud_target, migrated >>

\* lines 341-342: shutil.rmtree raises after it removed the files S; the
\* error is printed, the root and the store stay
RemoveTreeRaises(S) ==
    /\ pc = "destroy"
    /\ rows = {}
    /\ \A p \in S : UnderRoot(p) /\ exists(disk, p)
    /\ conn' = "closed"
    /\ disk' = [ p \in DOMAIN disk |-> IF p \in S THEN NoFile ELSE disk[p] ]
    /\ pc' = "idle"
    /\ last' = "rmtree error"
    /\ UNCHANGED << memory_exists, files_table, pending, remaining,
                    managed_hashes, new_files_processed, loopLocals, clock,
                    returned, visualVars, maintVars >>

(* --------------------- operations without a catalog -------------------- *)
\* the operations that begin with `if not memory_path.exists():` followed by
\* a message and `return`
GuardedOps ==
    { "upload_dry_run", "upload_to_cloud", "delete_memory", "print_stats",
      "delete_file_by_id", "detect_samesize", "detect_visual",
      "populate_perceptual_hashes", "migrate_files_to_memory",
      "migrate_files_table", "migrate_paths_to_relative" }

\* variant: the store is connected before the root is looked for
ConnectsFirst_Always(op) == TRUE

\* whether op opens the store before it looks for the root: none does
ConnectsFirst(op) == FALSE

\* one of the guarded operations called while the root does not exist; a
\* MemoryDB.connect() ahead of the guard would create the store
NotInitialized(op) ==
    /\ pc = "idle"
    /\ ~memory_exists
    /\ last' = "not initialized"
    /\ IF ConnectsFirst(op)
       THEN /\ memory_exists' = TRUE
            /\ columns' = CreatedColumns
       ELSE UNCHANGED << memory_exists, columns >>
    /\ UNCHANGED << files_table, disk, conn, pc, pending, remaining,
                    managed_hashes, new_files_processed, loopLocals, clock,
                    returned, visualVars, maintLocals >>

\* catalogs with rows stored below the root and outside it
InitDestroy ==
    /\ memory_exists = TRUE
    /\ columns = CreatedColumns
    /\ files_table \in MigTables(columns)
    /\ \E d \in [MigPaths -> {NoFile} \cup Contents] :
          disk = [ p \in RootPaths \cup ExternalPaths |->
                     IF p \in MigPaths THEN d[p] ELSE NoFile ]
    /\ conn = "closed"
    /\ pc = "idle"
    /\ pending = "none"
    /\ remaining = {}
    /\ managed_hashes = {}
    /\ new_files_processed = 0
    /\ filepath = NoEntry
    /\ file_hash = NoHash
    /\ dest_path = <<>>
    /\ last = "none"
    /\ clock = 1
    /\ returned = "None"
    /\ files = <<>>
    /\ outer_i = 0
    /\ visited = {}
    /\ groups = <<>>
    /\ arg_videos = FALSE
    /\ arg_photos = FALSE
    /\ rows = {}
    /\ uncommitted = {}
    /\ cloud_target = "none"
    /\ migrated = FALSE

NextDestroy ==
    \/ delete_memory
    \/ \E r \in rows : DestroyUnlink(r)
    \/ \E r \in rows : DestroyUnlinkRaises(r)
    \/ RemoveTree
    \/ \E S \in SUBSET { p \in DOMAIN disk : UnderRoot(p) } : RemoveTreeRaises(S)
    \/ \E op \in GuardedOps : NotInitialized(op)

SpecDestroy == InitDestroy /\ [][NextDestroy]_vars

(* ------------------- claims on destruction and guards ------------------ *)
\* the rows the loop of delete_memory handles in this step
Handled == rows \ rows'

\* the loop of delete_memory: every fetched row is handled, the file of a
\* handled row is gone unless its unlink raised, a failure leaves the other
\* rows to be handled, and no other file is touched
DestroyLoop ==
    /\ (pc = "idle" /\ pc' = "destroy") => rows' = files_table /\ disk' = disk
    /\ (pc = "destroy" /\ pc' = "destroy") =>
          /\ Cardinality(Handled) = 1
          /\ rows' \subseteq rows
          /\ files_table' = files_table
          /\ \A r \in Handled :
                /\ exists(disk', Resolved(r)) =>
                      last' = "unlink error" /\ rows' = rows \ {r}
                /\ \A p \in DOMAIN disk :
                      disk'[p] # disk[p] => p = Resolved(r) /\ disk'[p] = NoFile
    /\ (pc = "destroy" /\ pc' = "idle") =>
          /\ rows = {}
          /\ \A r \in files_table :
                exists(disk, Resolved(r)) => last = "unlink error"
          /\ \A p \in DOMAIN disk : ~UnderRoot(p) => disk'[p] = disk[p]

C24_RmtreeFailed ==
    /\ pc = "idle"
    /\ last = "rmtree error"
    /\ memory_exists
    /\ files_table # {}

\* C22: when no catalog root exists, upload, upload dry run, per-hash
\* delete, destroy, stats, both detectors, fingerprint backfill and the
\* migration commands abort: neither the root nor the store is created, no
\* file changes, no connection stays open.
C22_NotInitializedAborts ==
    [][ \A op \in GuardedOps :
          NotInitialized(op) =>
              /\ ~memory_exists'
              /\ columns' = NoColumns
              /\ files_table' = {}
              /\ disk' = disk
              /\ conn' = "closed"
              /\ pc' = "idle" ]_vars

\* an operation was called after the catalog had been destroyed and
\* aborted, a file that was never in the root still being on disk
C22_Witness ==
    /\ last = "not initialized"
    /\ ~memory_exists
    /\ columns = NoColumns
    /\ \E p \in ExternalPaths : exists(disk, p)

(* ---------------------------- the dedup key ---------------------------- *)
\* the entry the loop of _scan_and_process_folder takes in this step
Taken == remaining \ remaining'

\* C25: calculate_file_hash depends only on the file's bytes, so two files
\* with identical content get the same digest whatever their names and
\* paths, and the import pipeline decides by this digest alone that a
\* candidate is already managed: a candidate whose digest is in the managed
\* set is skipped wherever it lies, no candidate whose digest is outside the
\* set is skipped unless the destination of its name already holds the same
\* bytes, and the digest of the bytes is what the copy is keyed with.
C25_DigestIsTheDedupKey ==
    [][ /\ \A e1, e2 \in FilePool :
              (e1.kind = "file" /\ e2.kind = "file") =>
                  (e1.content = e2.content
                      <=> calculate_file_hash(e1.content) = calculate_file_hash(e2.content))
        /\ (pc = "scan" /\ pc' \in {"scan", "copy"} /\ Cardinality(Taken) = 1) =>
              \A f \in Taken :
                 LET h == calculate_file_hash(f.content)
                     occupant == _get_memory_path \o <<PathName(f.path)>>
                 IN  /\ (~NotACandidate(f) /\ h \in managed_hashes) =>
                            pc' = "scan" /\ disk' = disk /\ files_table' = files_table
                     /\ pc' = "copy" =>
                            /\ ~NotACandidate(f)
                            /\ file_hash' = h
                            /\ h \notin managed_hashes
                     /\ (~NotACandidate(f) /\ h \notin managed_hashes /\ pc' = "scan") =>
                            /\ exists(disk, occupant)
                            /\ calculate_file_hash(disk[occupant]) = h ]_vars

\* a scan is about to take a candidate whose bytes are managed under another
\* name, next to a candidate of the same name whose bytes are not
C25_Witness ==
    /\ pc = "scan"
    /\ \E f, g \in remaining :
          /\ ~NotACandidate(f) /\ ~NotACandidate(g)
          /\ PathName(f.path) = PathName(g.path)
          /\ calculate_file_hash(f.content) \in managed_hashes
          /\ calculate_file_hash(g.content) \notin managed_hashes
          /\ \E r \in files_table :
                /\ r.file_hash = calculate_file_hash(f.content)
                /\ r.current_filename # PathName(f.path)

(* ------------ importing three files that share their name -------------- *)
\* the bytes of the three files
TripleContents == <<1, 2, 3>>

\* an initialized, empty catalog; import_folder has just begun to scan a
\* source folder that holds a.jpg, sub/a.jpg and sub2/a.jpg, each with
\* bytes of its own
InitTriple ==
    /\ memory_exists = TRUE
    /\ files_table = {}
    /\ disk = [p \in RootPaths |-> NoFile]
    /\ conn = "open"
    /\ pc = "scan"
    /\ pending = "none"
    /\ remaining = { Entry(<<FileName("a", "jpg")>>, "file", TripleContents[1]),
                     Entry(<<DirName("sub"), FileName("a", "jpg")>>, "file", TripleContents[2]),
                     Entry(<<DirName("sub2"), FileName("a", "jpg")>>, "file", TripleContents[3]) }
    /\ managed_hashes = {}
    /\ new_files_processed = 0
    /\ filepath = NoEntry
    /\ file_hash = NoHash
    /\ dest_path = <<>>
    /\ last = "running"
    /\ clock \in 1 .. MaxClock
    /\ returned = "None"
    /\ files = <<>>
    /\ outer_i = 0
    /\ visited = {}
    /\ groups = <<>>
    /\ arg_videos = FALSE
    /\ arg_photos = FALSE
    /\ columns = CreatedColumns
    /\ rows = {}
    /\ uncommitted = {}
    /\ cloud_target = "none"
    /\ migrated = FALSE

\* a run in which nothing raises and that is not terminated
NextTriple ==
    \/ \E f \in remaining : ScanFile(f)
    \/ CopyBegin
    \/ CopyEnd
    \/ \E text \in MetaTexts, phash \in {NULL, HexA} : ExtractAndInsert(text, phash)
    \/ FinishScan
    \/ Tick

SpecTriple == InitTriple /\ [][NextTriple]_vars

\* C26 (as claimed): after an import run, for every row the file at its
\* current_path exists and holds content whose hash is the row's hash; the
\* import never writes over a file that exists in the catalog root, also
\* when three different-content files of one name are imported and the
\* timestamp suffix repeats.
C26_ImportNeverOverwrites ==
    /\ (pc = "idle" /\ last = "reported") =>
          \A r \in files_table : BackingFileIntact(r, disk)
    /\ pc = "copy" => ~exists(disk, dest_path)

(* ------------------------ the in-memory hash set ----------------------- *)
\* C27: throughout an import run with a single writer, at the start of
\* every candidate's iteration the in-memory managed-hash set, loaded once
\* when the run starts and extended with every inserted hash, equals the set
\* of content hashes in the store, so the in-memory skip decision agrees
\* with a point lookup in the store for every candidate still to come.
C27_ManagedSetMirrorsStore ==
    pc = "scan" =>
        /\ managed_hashes = get_all_file_hashes(files_table)
        /\ \A f \in remaining :
              IsManaged(calculate_file_hash(f.content), managed_hashes)
                  <=> get_file_by_hash(files_table, calculate_file_hash(f.content)) # <<>>

\* an iteration starts in a run that loaded one hash at its start and has
\* inserted another since
C27_Witness ==
    /\ pc = "scan"
    /\ remaining # {}
    /\ new_files_processed = 1
    /\ Cardinality(managed_hashes) = 2
    /\ Cardinality(files_table) = 2

(* ---------------------- every candidate is recorded -------------------- *)
\* C28 (as claimed): after an import run that completes without an error,
\* every media file under the source has its content hash recorded in the
\* catalog, also when an earlier run was terminated between the copy of that
\* file and the insert of its row.  Stated per iteration of a run in which
\* nothing raises: the iteration of a candidate returns to the head of the
\* loop only with the candidate's hash in the store.
C28_EveryCandidateRecorded ==
    [][ /\ (pc = "scan" /\ pc' = "scan" /\ Cardinality(Taken) = 1) =>
              \A f \in Taken :
                  ~NotACandidate(f) =>
                      calculate_file_hash(f.content) \in get_all_file_hashes(files_table')
        /\ (pc = "extract" /\ pc' = "scan") =>
              file_hash \in get_all_file_hashes(files_table') ]_vars

(* ---------------------------- repeated upload -------------------------- *)
\* an upload to cloud_target has just returned
UploadReturned ==
    /\ pc = "idle"
    /\ last \in {"reported", "nothing to upload"}
    /\ cloud_target \in CloudTargets

C30_MovedRowsStillResolve ==
    [][ pc = "relocating" =>
          \A r \in files_table :
              exists(disk, Resolved(r)) =>
                  \E x \in files_table' :
                      x.file_hash = r.file_hash /\ exists(disk', Resolved(x)) ]_vars

\* the pass has failed after a move: a row refers to the place its file was
\* moved away from
C30_DanglingAfterFailure ==
    /\ pc = "idle"
    /\ last = "error"
    /\ \E r \in files_table :
          /\ ~exists(disk, Resolved(r))
          /\ exists(disk, _get_memory_path \o <<PathName(r.current_path)>>)
          /\ ~InMemoryFolder(Resolved(r))

(* --------------------- deletion of row and file together --------------- *)
\* C31 (as claimed): delete_file_by_id never leaves a row whose backing file
\* it has already removed, wherever it fails or is terminated, and never
\* removes a row while leaving behind a backing file whose deletion failed.
\* Stated per step of the operation, after each of which it can be
\* terminated: a step that removes the file of a row removes the row, and a
\* step that removes a row leaves no file of that row.
C31_RowAndFileGoTogether ==
    [][ (pc = "unlink" \/ pc = "delete row") =>
          \A r \in files_table :
              /\ (exists(disk, BackingFile(r)) /\ ~exists(disk', BackingFile(r))) =>
                    (r \notin files_table')
              /\ (r \notin files_table') => ~exists(disk', BackingFile(r))
      ]_vars

\* the file of the looked-up row has been unlinked, the row is still stored
C31_FileGoneRowLeft ==
    /\ pc = "delete row"
    /\ last = "running"
    /\ \E r \in rows : r \in files_table /\ ~exists(disk, BackingFile(r))

(* ------------------------------ flat layout ---------------------------- *)
\* the stored path is one component, directly under the root, and is the
\* stored filename
FlatAndNamed(r) ==
    /\ Len(r.current_path) = 1
    /\ r.current_path[1] = r.current_filename

\* every row the import pipeline creates is flat and named
ImportRowsFlat == \A r \in files_table : FlatAndNamed(r)

\* C32 (as claimed): after any sequence of import and migration runs, every
\* row created or relocated by them has a current_path that is a single
\* path component directly under the catalog root and equal to the row's
\* current_filename.  Here for the rows a relocation pass commits.
C32_RelocatedRowsFlatAndNamed ==
    [][ (pc = "relocating" /\ pc' = "idle" /\ last' = "reported") =>
          \A x \in files_table' \ files_table : FlatAndNamed(x) ]_vars

\* a relocated row whose file was moved under a suffixed name still carries
\* the old filename
C32_StaleFilename ==
    /\ MigrationDone
    /\ \E r \in files_table :
          /\ Len(r.current_path) = 1
          /\ exists(disk, Resolved(r))
          /\ r.current_path[1] # r.current_filename

(* ------------------------ the detectors' type filter ------------------- *)
\* both detectors on one catalog
NextDetect == NextVisual \/ NextSameSize

SpecDetect == InitVisual /\ [][NextDetect]_vars

\* the media types a row can carry
MediaTypes == {"photo", "video", "None"}

\* the rows the claim lets through: video rows with only videos set, photo
\* rows with only photos set, all rows with neither, none with both
OneType(media_type, videos, photos) ==
    CASE videos /\ photos -> FALSE
      [] videos -> media_type = "video"
      [] photos -> media_type = "photo"
      [] OTHER -> TRUE

\* detect_visual reads its input; detect_samesize runs
VisualStarts == pc = "idle" /\ pc' = "visual"
SameSizeRuns == pc = "idle" /\ pc' = "idle" /\ last' = "reported"

\* C36: in detect_samesize and detect_visual the type filter restricts the
\* input to one media type: with only videos set only video rows are
\* considered, with only photos set only photo rows, with neither set all
\* rows, and with both set no row passes, so nothing is reported.
C36_TypeFilter ==
    [][ /\ \A mt \in MediaTypes, v \in BOOLEAN, p \in BOOLEAN :
              /\ PassesTypeFilter(mt, v, p) <=> OneType(mt, v, p)
              /\ PassesSizeFilter(mt, v, p) <=> OneType(mt, v, p)
        /\ VisualStarts =>
              /\ { files'[k] : k \in 1 .. Len(files') }
                   = { FileTuple(r) :
                         r \in { x \in files_table :
                                   /\ x.perceptual_hash # NULL
                                   /\ OneType(x.media_type, arg_videos', arg_photos') } }
              /\ (arg_videos' /\ arg_photos') => files' = <<>>
        /\ (pc = "visual" /\ pc' = "idle" /\ arg_videos /\ arg_photos) =>
              groups' = <<>>
        /\ SameSizeRuns =>
              /\ PrintedMembers(groups')
                   \subseteq { SizeMember(r) :
                                 r \in { x \in files_table :
                                           OneType(x.media_type, arg_videos', arg_photos') } }
              /\ (arg_videos' /\ arg_photos') => groups' = <<>>
              /\ (~arg_videos' /\ ~arg_photos') =>
                    \A r1, r2 \in files_table :
                        (r1 # r2 /\ r1.size = r2.size) =>
                            SizeMember(r1) \in PrintedMembers(groups') ]_vars

\* detect_visual with only videos set has read a catalog that holds a photo
\* and a video with fingerprints, and considers the video alone
C36_Witness ==
    /\ pc = "visual"
    /\ arg_videos /\ ~arg_photos
    /\ \E r \in files_table : r.media_type = "photo" /\ r.perceptual_hash # NULL
    /\ Len(files) = 1
    /\ files[1].media_type = "video"

(* ----------------------- populate_perceptual_hashes -------------------- *)
\* the fingerprint '' of a legacy row: a text without a digit
EmptyFingerprint == <<"">>

\* variant: the SELECT without its WHERE clause
NeedsFingerprint_All(r) == TRUE

\* line 571: WHERE perceptual_hash IS NULL OR perceptual_hash = ''
NeedsFingerprint(r) ==
    r.perceptual_hash = NULL \/ r.perceptual_hash = EmptyFingerprint

\* the UPDATEs of ups (line 587) applied to table
ApplyFingerprints(table, ups) ==
    { IF \E u \in ups : u.file_hash = r.file_hash
      THEN [r EXCEPT !.perceptual_hash =
               (CHOOSE u \in ups : u.file_hash = r.file_hash).perceptual_hash]
      ELSE r : r \in table }

\* populate_perceptual_hashes up to its loop (lines 550-578)
populate_perceptual_hashes ==
    /\ pc = "idle"
    /\ memory_exists
    /\ LET selected == { r \in files_table : NeedsFingerprint(r) }
       IN  IF selected = {}
           THEN /\ conn' = "closed"
                /\ last' = "nothing to populate"
                /\ UNCHANGED << pc, rows, uncommitted >>
           ELSE /\ conn' = "open"
                /\ rows' = selected
                /\ uncommitted' = {}
                /\ pc' = "populating"
                /\ last' = "running"
    /\ UNCHANGED << memory_exists, files_table, disk, pending, remaining,
                    managed_hashes, new_files_processed, loopLocals, clock,
                    returned, visualVars, columns, cloud_target, migrated >>

\* one iteration of the loop (lines 579-591); phash is what
\* _get_perceptual_hash returns for the file, NULL (None) when it fails
PopulateRow(r, phash) ==
    /\ pc = "populating"
    /\ r \in rows
    /\ rows' = rows \ {r}
    /\ LET file_path == _from_relative_path(r.current_path, _get_memory_path)
       IN  IF ~exists(disk, file_path) \/ phash = NULL
           THEN UNCHANGED uncommitted
           ELSE uncommitted' =
                    { u \in uncommitted : u.file_hash # r.file_hash }
                      \cup { [file_hash |-> r.file_hash, perceptual_hash |-> phash] }
    /\ UNCHANGED << memory_exists, files_table, disk, conn, pc, pending,
                    remaining, managed_hashes, new_files_processed, loopLocals,
                    last, clock, returned, visualVars, columns, cloud_target,
                    migrated >>

\* after the loop (lines 592-600): commit, report, close
FinishPopulate ==
    /\ pc = "populating"
    /\ rows = {}
    /\ files_table' = ApplyFingerprints(files_table, uncommitted)
    /\ uncommitted' = {}
    /\ conn' = "closed"
    /\ pc' = "idle"
    /\ last' = "reported"
    /\ UNCHANGED << memory_exists, disk, pending, remaining, managed_hashes,
                    new_files_processed, loopLocals, clock, returned,
                    visualVars, columns, rows, cloud_target, migrated >>

\* a row of the catalog with the given fingerprint
PopulateRowOf(k, ph) ==
    [ ManageRow(k, <<FALSE, FALSE, FALSE>>) EXCEPT !.perceptual_hash = ph ]

\* catalogs whose rows have a fingerprint, none or an empty one, and whose
\* files are there or missing
InitPopulate ==
    /\ memory_exists = TRUE
    /\ columns = CreatedColumns
    /\ \E n \in 0 .. MaxRecs :
          /\ \E ph \in [1 .. n -> {NULL, EmptyFingerprint, HexC}] :
                files_table = { PopulateRowOf(k, ph[k]) : k \in 1 .. n }
          /\ \E present \in SUBSET (1 .. n) :
                disk = [ p \in RootPaths \cup { ManagePath(k) : k \in 1 .. MaxRecs } |->
                           IF \E k \in present : p = ManagePath(k)
                           THEN CHOOSE k \in present : p = ManagePath(k)
                           ELSE NoFile ]
    /\ conn = "closed"
    /\ pc = "idle"
    /\ pending = "none"
    /\ remaining = {}
    /\ managed_hashes = {}
    /\ new_files_processed = 0
    /\ filepath = NoEntry
    /\ file_hash = NoHash
    /\ dest_path = <<>>
    /\ last = "none"
    /\ clock = 1
    /\ returned = "None"
    /\ files = <<>>
    /\ outer_i = 0
    /\ visited = {}
    /\ groups = <<>>
    /\ arg_videos = FALSE
    /\ arg_photos = FALSE
    /\ rows = {}
    /\ uncommitted = {}
    /\ cloud_target = "none"
    /\ migrated = FALSE

NextPopulate ==
    \/ populate_perceptual_hashes
    \/ \E r \in rows, phash \in {NULL, HexA, HexB} : PopulateRow(r, phash)
    \/ FinishPopulate

SpecPopulate == InitPopulate /\ [][NextPopulate]_vars

\* C33: populate_perceptual_hashes writes a fingerprint only to rows whose
\* fingerprint is absent (NULL or empty) and only when extraction succeeds
\* on an existing backing file; it never changes a fingerprint that is
\* present nor any other column; a row whose file is missing or whose
\* extraction fails keeps its absent fingerprint, and the run goes on to
\* the rows that are left.
C33_BackfillFrame ==
    [][ /\ (pc = "idle" /\ pc' = "populating") =>
              /\ rows' = { r \in files_table :
                             r.perceptual_hash \notin PhashPool }
              /\ files_table' = files_table
        /\ (pc = "populating" /\ pc' = "populating") =>
              /\ files_table' = files_table
              /\ disk' = disk
              /\ Cardinality(Handled) = 1
              /\ rows' \subseteq rows
              /\ \A r \in Handled :
                    /\ ~exists(disk, BackingFile(r)) => uncommitted' = uncommitted
                    /\ \A u \in uncommitted' \ uncommitted :
                          /\ u.file_hash = r.file_hash
                          /\ u.perceptual_hash \in PhashPool
        /\ (pc = "populating" /\ pc' = "idle") =>
              /\ rows = {}
              /\ disk' = disk
              /\ Cardinality(files_table') = Cardinality(files_table)
              /\ \A r \in files_table :
                    \E x \in files_table' :
                       /\ x.file_hash = r.file_hash
                       /\ \A c \in DOMAIN r \ {"perceptual_hash"} : x[c] = r[c]
                       /\ r.perceptual_hash \in PhashPool =>
                             x.perceptual_hash = r.perceptual_hash
                       /\ x.perceptual_hash # r.perceptual_hash =>
                             /\ x.perceptual_hash \in PhashPool
                             /\ exists(disk, BackingFile(r))
                       /\ ~exists(disk, BackingFile(r)) =>
                             x.perceptual_hash = r.perceptual_hash ]_vars

\* a backfill has returned: one row got its fingerprint, one whose file is
\* missing still has none, one kept the fingerprint it had
C33_Witness ==
    /\ pc = "idle"
    /\ last = "reported"
    /\ \E x, y, z \in files_table :
          /\ x.perceptual_hash \in {HexA, HexB} /\ exists(disk, BackingFile(x))
          /\ y.perceptual_hash = NULL /\ ~exists(disk, BackingFile(y))
          /\ z.perceptual_hash = HexC

(* ------------- importing a folder that encloses the catalog ----------- *)
\* the media files of the scanned folder outside the catalog root
SourcePaths ==
    { <<DirName("pics"), FileName("a", "jpg")>>,
      <<DirName("pics"), DirName("sub"), FileName("a", "jpg")>> }

\* what rglob('*') yields for the folder above the home folder: every file
\* of d, each with its absolute path (lines 80-83)
TreeEntries(d) ==
    { Entry(p, "file", d[p]) : p \in { q \in DOMAIN d : d[q] # NoFile } }

\* the row an earlier import stored for content c copied to the root as a.jpg
EarlierRow(c) ==
    add_file_metadata({},
        BuildMetadata(Entry(<<DirName("old"), FileName("a", "jpg")>>, "file", c),
                      calculate_file_hash(c),
                      _get_memory_path \o <<FileName("a", "jpg")>>,
                      MetaEmpty, NULL, 1)).table

\* an initialized catalog whose root is empty or holds a.jpg, with its row
\* or (an import that was stopped after its copy) without; the folder above
\* the home folder holds pics/a.jpg and pics/sub/a.jpg
InitSource ==
    /\ memory_exists = TRUE
    /\ \E c1, c2 \in Contents, c0 \in Contents \cup {NoFile}, hasRow \in BOOLEAN :
          /\ disk = [ p \in RootPaths \cup SourcePaths |->
                        IF p = <<DirName("pics"), FileName("a", "jpg")>> THEN c1
                        ELSE IF p \in SourcePaths THEN c2
                        ELSE IF p = _get_memory_path \o <<FileName("a", "jpg")>> THEN c0
                        ELSE NoFile ]
          /\ files_table = IF hasRow /\ c0 # NoFile THEN EarlierRow(c0) ELSE {}
    /\ conn = "closed"
    /\ pc = "idle"
    /\ pending = "none"
    /\ remaining = {}
    /\ managed_hashes = {}
    /\ new_files_processed = 0
    /\ filepath = NoEntry
    /\ file_hash = NoHash
    /\ dest_path = <<>>
    /\ last = "none"
    /\ clock \in 1 .. MaxClock
    /\ returned = "None"
    /\ files = <<>>
    /\ outer_i = 0
    /\ visited = {}
    /\ groups = <<>>
    /\ arg_videos = FALSE
    /\ arg_photos = FALSE
    /\ columns = CreatedColumns
    /\ rows = {}
    /\ uncommitted = {}
    /\ cloud_target = "none"
    /\ migrated = FALSE

NextSource ==
    \/ \E recursive \in BOOLEAN : import_folder(TreeEntries(disk), FALSE, recursive)
    \/ \E f \in remaining : ScanFile(f)
    \/ \E f \in remaining : ScanFileHashRaises(f)
    \/ CopyBegin
    \/ CopyEnd
    \/ CopyRaises
    \/ \E text \in MetaTexts, phash \in {NULL, HexA} : ExtractAndInsert(text, phash)
    \/ FinishScan
    \/ Terminate
    \/ Tick

SpecSource == InitSource /\ [][NextSource]_vars

\* C35: an import run copies and never moves, modifies or deletes: every
\* file of the scanned folder outside the catalog root keeps its path and
\* its content in every step, the only file a step writes is the copy's
\* destination inside the root, what is copied is the content the source
\* file has, and an entry inside the catalog root ends its iteration
\* before anything is read, chosen or written for it: the run goes on with
\* nothing changed, and reading can only fail on an entry outside the root.
C35_ImportOnlyCopies ==
    [][ /\ DOMAIN disk' = DOMAIN disk
        /\ \A p \in SourcePaths : disk'[p] = disk[p]
        /\ \A p \in DOMAIN disk :
              disk'[p] # disk[p] =>
                 /\ p = dest_path
                 /\ UnderRoot(p)
                 /\ disk'[p] \in {Truncated, disk[filepath.path]}
        /\ pc' = "copy" =>
              /\ filepath'.path \in SourcePaths
              /\ filepath'.content = disk[filepath'.path]
              /\ UnderRoot(dest_path')
        /\ (pc = "scan" /\ last' = "running") =>
              \A f \in Taken :
                 UnderRoot(f.path) =>
                    /\ pc' = "scan"
                    /\ conn' = conn
                    /\ disk' = disk
                    /\ files_table' = files_table
                    /\ managed_hashes' = managed_hashes
        /\ (pc = "scan" /\ last' = "error") =>
              \E f \in remaining : ~UnderRoot(f.path)
      ]_vars

\* an import has reported after it copied a source file to a suffixed name
\* next to the a.jpg the root already held; both source files are where
\* they were
C35_Witness ==
    /\ pc = "idle"
    /\ last = "reported"
    /\ exists(disk, _get_memory_path \o <<FileName("a", "jpg")>>)
    /\ \A p \in SourcePaths : exists(disk, p)
    /\ \E q \in RootPaths, p \in SourcePaths :
          /\ PathName(q).ts # 0
          /\ disk[q] = disk[p]

(* ------------------ a row through all the operations ------------------ *)
\* the folders imported here: a.jpg with the stored content or a new one
LifeFolders ==
    { { Entry(<<FileName("a", "jpg")>>, "file", c) } : c \in 1 .. 2 }

\* the stored row of content 1: a legacy one outside the root or one in the
\* root, uploaded to some targets or none
LifeRows ==
    { [ MigRow(1, cur, <<DirName("home"), DirName("ext1"), FileName("a", "jpg")>>)
        EXCEPT !.uploaded_s3 = up[1], !.uploaded_gcloud = up[2],
               !.uploaded_azure = up[3] ] :
      cur \in { <<FileName("a", "jpg")>>,
                <<DirName("home"), DirName("ext1"), FileName("a", "jpg")>> },
      up \in { <<FALSE, FALSE, FALSE>>, <<TRUE, FALSE, TRUE>> } }

\* a catalog with one row, imported a second ago, its file there or missing
InitLife ==
    /\ memory_exists = TRUE
    /\ columns = ExpectedColumns
    /\ \E r \in LifeRows, present \in BOOLEAN :
          /\ files_table = {r}
          /\ disk = [ p \in RootPaths \cup ExternalPaths |->
                        IF present /\ p = _from_relative_path(r.current_path, _get_memory_path)
                        THEN 1 ELSE NoFile ]
    /\ conn = "closed"
    /\ pc = "idle"
    /\ pending = "none"
    /\ remaining = {}
    /\ managed_hashes = {}
    /\ new_files_processed = 0
    /\ filepath = NoEntry
    /\ file_hash = NoHash
    /\ dest_path = <<>>
    /\ last = "none"
    /\ clock = MaxClock
    /\ returned = "None"
    /\ files = <<>>
    /\ outer_i = 0
    /\ visited = {}
    /\ groups = <<>>
    /\ arg_videos = FALSE
    /\ arg_photos = FALSE
    /\ rows = {}
    /\ uncommitted = {}
    /\ cloud_target = "none"
    /\ migrated = FALSE

NextLife ==
    \/ \E F \in LifeFolders : import_folder(F, FALSE, TRUE)
    \/ \E f \in remaining : ScanFile(f)
    \/ \E f \in remaining : ScanFileHashRaises(f)
    \/ CopyBegin
    \/ CopyEnd
    \/ CopyRaises
    \/ ExtractAndInsert(MetaEmpty, NULL)
    \/ FinishScan
    \/ populate_perceptual_hashes
    \/ \E r \in rows, phash \in {NULL, HexA} : PopulateRow(r, phash)
    \/ FinishPopulate
    \/ migrate_files_table
    \/ \E n \in 0 .. Len(ExpectedNames) : migrate_files_table_raises(n)
    \/ migrate_paths_to_relative
    \/ migrate_files_to_memory
    \/ \E r \in rows : MoveRow(r)
    \/ \E r \in rows : MoveRaises(r)
    \/ FinishMove
    \/ \E target \in {"s3", "gcloud", "ftp"} : upload_to_cloud(target)
    \/ \E r \in rows : UploadRow(r)
    \/ FinishUpload
    \/ \E h \in ManageHashes : delete_file_by_id(h)
    \/ DeleteUnlink
    \/ DeleteUnlinkRaises
    \/ DeleteRow

SpecLife == InitLife /\ [][NextLife]_vars

\* the three upload flags of a row
Flags(r) == [ t \in CloudTargets |-> Flag(r, t) ]

\* C34: once a row exists, no operation other than deleting it changes its
\* content_hash, size or date_added: a stored hash stays stored, with the
\* same size and date_added, in every step but the DELETE of that row;
\* import, fingerprint backfill and the migration commands never change an
\* upload flag: the flags of a row change only in an iteration of
\* upload_to_cloud; and no step of any operation resets a true flag.
C34_RowFrame ==
    [][ /\ \A r \in files_table :
              /\ (\A x \in files_table' : x.file_hash # r.file_hash) =>
                    /\ pc = "delete row"
                    /\ r \in rows
                    /\ files_table' = files_table \ {r}
              /\ \A x \in files_table' :
                    x.file_hash = r.file_hash =>
                       /\ x.size = r.size
                       /\ x.date_added = r.date_added
                       /\ \A t \in CloudTargets : Flag(r, t) => Flag(x, t)
                       /\ pc # "uploading" => Flags(x) = Flags(r)
        /\ \A x, y \in files_table' : x.file_hash = y.file_hash => x = y
      ]_vars

\* the row the catalog started with has been through a backfill, a
\* relocation and an upload: it has a new fingerprint, a new path and a new
\* flag, next to a row imported later, and still the flag, the size and the
\* date it started with
C34_Witness ==
    /\ pc = "idle"
    /\ \E r, n \in files_table :
          /\ r.file_hash = calculate_file_hash(1)
          /\ r.perceptual_hash = HexA
          /\ r.current_path # <<FileName("a", "jpg")>>
          /\ ~IsAbsolute(r.current_path)
          /\ r.uploaded_s3 /\ r.uploaded_gcloud /\ r.uploaded_azure
          /\ r.date_added = 1
          /\ n.date_added = MaxClock
          /\ n.file_hash # r.file_hash

====
